---- MODULE Spec2Model ----
(***************************************************************************)
(* Verification model of the motion-tracking and speed-estimation          *)
(* pipeline: FrameBuffer and VideoProcessor (video_processor.py),          *)
(* VehicleSpeedDetector (detector.py), the calibration as the window of    *)
(* gui.py drives it, and MultiVehicleTracker (tracker.py).                 *)
(***************************************************************************)
EXTENDS Integers, Sequences, FiniteSets, TLC

(***************************************************************************)
(* Bounds of the model.                                                    *)
(***************************************************************************)
\* number of frames the video source yields before cap.read() fails
SrcLen == 3
\* number of start_processing calls on one VideoProcessor
MaxStarts == 2
\* frame_skip is drawn from 1..MaxFrameSkip
MaxFrameSkip == 2
\* buffer_size handed to VideoProcessor / FrameBuffer
BufferSize == 2
\* int(fps), the step of the backward / forward keys
SeekStep == 2
\* number of frames on which process_fn raises
MaxRaises == 1
\* number of frames handed to VehicleSpeedDetector.process_frame
MaxFrames == 7
\* number of contours found in one frame
MaxBlobs == 2
\* number of MultiVehicleTracker.update calls
MaxUpdates == 2
\* the farthest a tracked object moves between two frames, in pixels along the
\* axes
MaxMove == 40
\* the leftmost center of a window of centers is at most 10 * MaxRowStart
MaxRowStart == 12
\* a buffer_size whose nine tenths are below it
LargeBuffer == 10
\* the latest reading of time.time(), in ticks
MaxTime == 3
\* the video: frame width and height in pixels, frames per second
FrameWidth == 1280
FrameHeight == 720
Fps == 30

(***************************************************************************)
(* Constants of the program.  Speeds are in thousandths of a km/h, pixel   *)
(* distances in hundredths of a pixel, the scale in 1e-5 m per pixel.      *)
(***************************************************************************)
\* VehicleSpeedDetector.__init__: known_distance_m=10
known_distance_default == 10
\* self.speed_window = 5
speed_window == 5
\* self.max_speed_change = 10.0 (km/h)
max_speed_change == 10000
\* self.min_contour_area = 500
min_contour_area == 500
\* sorted(contours, ...)[:5]
MaxContours == 5
\* if w > 1280: the width frames are resized to
ResizeWidth == 1280
\* np.cos(np.radians(30)), in thousandths
Cos30 == 866

\* time.time() is read in ticks of half a second
TicksPerSecond == 2
\* VehicleTrack.is_active(timeout=1.0), in ticks
timeout == 1 * TicksPerSecond
\* dist < 50: the threshold for matching, in pixels
match_threshold == 50

None == 0
\* closest_id = None (track ids start at 0)
NoId == -1
\* speed_kmh = None
NoSpeed == -1
\* no point: selected_box = None, closest_contour = None, frame_size = None
NoPoint == <<>>

VARIABLES
    \* FrameBuffer
    buffer,           \* FrameBuffer.buffer: the queued frames, oldest first
    stop_event,       \* FrameBuffer.stop_event
    processing_done,  \* FrameBuffer.processing_done
    max_size,         \* FrameBuffer.buffer.maxsize, from FrameBuffer(max_size)
    \* VideoProcessor
    frame_skip,       \* VideoProcessor.frame_skip
    current_frame_no, \* VideoProcessor.current_frame_no
    total_frames,     \* VideoProcessor.total_frames
    read_thread,      \* VideoProcessor.read_thread: index into readers, or None
    process_thread,   \* VideoProcessor.process_thread: index into processors, or None
    \* threads ever started by start_processing, in start order
    readers,          \* read_frames threads: [pc, frames_to_skip, frame] and what the
                      \* thread did: skipping (a put failed and none was attempted since),
                      \* read_since (frames read since the latest put),
                      \* put_failed (the frames whose put failed)
    processors,       \* process_frames threads: [pc, frame]
    main_pc,          \* position of the calling thread inside stop_processing
    \* the capture object
    src_len,          \* number of frames the source yields before read() fails
    cap_pos,          \* number of frames already read (CAP_PROP_POS_FRAMES)
    frame_count,      \* what cap.get(CAP_PROP_FRAME_COUNT) reports
    \* observation of the run
    enqueued,         \* frames for which frame_buffer.put returned True, in order
    processed,        \* frames handed to process_fn, in order
    failed,           \* frames on which process_fn raised
    stop_snapshot,    \* frames in the channel when stop_processing set the flag
    done_at_stop,     \* whether the source was exhausted when the flag was set
    after_stop,       \* frames handed to process_fn while the stop flag was set
    cleared,          \* frames removed by FrameBuffer.clear
    last_put,         \* outcome of the latest FrameBuffer.put: [size, ok, same]
    \* VehicleSpeedDetector
    known_distance_m, \* VehicleSpeedDetector.known_distance_m
    scale_m_per_px,   \* VehicleSpeedDetector.scale_m_per_px, or None
    fps,              \* VehicleSpeedDetector.fps, or None
    show_speed,       \* VehicleSpeedDetector.show_speed
    object_selected,  \* VehicleSpeedDetector.object_selected
    selected_box,     \* VehicleSpeedDetector.selected_box: the clicked point
    prev_centers,     \* VehicleSpeedDetector.prev_centers
    prev_speeds,      \* VehicleSpeedDetector.prev_speeds
    prev_center,      \* VehicleSpeedDetector.prev_center (set by process_frame only)
    frame_size,       \* VehicleSpeedDetector.frame_size
    frame_shape,      \* (height, width) of the frames of the video
    blob,             \* the one moving object of a video over a static background:
                      \* <<center in the next frame, displacement per frame>>, or
                      \* NoPoint while the scene is not of that kind
    \* what the latest process_frame call did
    speed_kmh,        \* the speed it returned, or NoSpeed
    display_speed,    \* the speed it drew on the frame, or NoSpeed
    last_match,       \* [center, prev, sel, cands]: the matched center, prev_center and
                      \* selected_box before the call, the qualifying contours' centers
    frames_done,      \* number of process_frame calls so far
    last_call,        \* [found, average, ncenters, nspeeds, raised]: the qualifying
                      \* contours of the latest process_frame, its weighted speed
                      \* before the rate limit, the lengths of both histories before
                      \* the call, whether it raised
    \* Config and the VideoProcessor of the GUI
    config_known_distance_m, \* Config.known_distance_m
    cap_fps,          \* what cap.get(CAP_PROP_FPS) reports
    cap_opened,       \* VideoProcessor.open_video has returned True
    current_speed,    \* VideoProcessor.current_speed
    running,          \* VideoThread.running
    \* MultiVehicleTracker
    next_vehicle_id,  \* MultiVehicleTracker.next_vehicle_id
    vehicles,         \* MultiVehicleTracker.vehicles: id -> VehicleTrack
    now,              \* time.time(), in ticks
    created,          \* ids of the tracks ever created, in creation order
    last_pass         \* the latest update call: [calls, time, outcomes, far, stale,
                      \* near_stale]: the number of calls so far, its clock reading,
                      \* per blob the track it went to and whether that track is new,
                      \* with the blob's center and the tracks it found (the ids
                      \* held, the active ones with their latest position),
                      \* per blob whether it was far from every track that existed,
                      \* the tracks that were timed out, whether a blob was near one

chanVars == <<buffer, stop_event, processing_done, max_size>>
vpVars == <<frame_skip, current_frame_no, total_frames, read_thread, process_thread>>
threadVars == <<readers, processors, main_pc>>
capVars == <<src_len, cap_pos, frame_count>>
obsVars == <<enqueued, processed, failed, stop_snapshot, done_at_stop, after_stop, cleared,
            last_put>>
pipeVars == <<chanVars, vpVars, threadVars, capVars, obsVars>>

detVars == <<known_distance_m, scale_m_per_px, fps, show_speed, object_selected,
            selected_box, prev_centers, prev_speeds, prev_center, frame_size, frame_shape,
            blob, speed_kmh, display_speed, last_match, frames_done, last_call>>

guiVars == <<config_known_distance_m, cap_fps, cap_opened, current_speed, running>>

trkVars == <<next_vehicle_id, vehicles, now, created, last_pass>>

vars == <<pipeVars, detVars, guiVars, trkVars>>

(***************************************************************************)
(* FrameBuffer                                                             *)
(***************************************************************************)
\* Queue.full() as Queue.put(block=False) tests it: maxsize > 0 and qsize >= maxsize
QueueFull(q, maxsize) ==
    maxsize > 0 /\ Len(q) >= maxsize

\* FrameBuffer.put without the capacity test
PutUnbounded(q, frame, maxsize) ==
    [ok |-> TRUE, q |-> Append(q, frame)]

\* FrameBuffer.put: buffer.put(frame, block=False); True, or False on queue.Full
Put(q, frame, maxsize) ==
    IF QueueFull(q, maxsize)
    THEN [ok |-> FALSE, q |-> q]
    ELSE [ok |-> TRUE, q |-> Append(q, frame)]

\* a get that hands out the newest frame
GetNewest(q) ==
    IF q = <<>>
    THEN [frame |-> None, q |-> q]
    ELSE [frame |-> q[Len(q)], q |-> SubSeq(q, 1, Len(q) - 1)]

\* FrameBuffer.get: buffer.get(block=False); the oldest frame, or None on queue.Empty
Get(q) ==
    IF q = <<>>
    THEN [frame |-> None, q |-> q]
    ELSE [frame |-> Head(q), q |-> Tail(q)]

\* FrameBuffer.should_stop
should_stop == stop_event

(***************************************************************************)
(* VideoProcessor.progress                                                 *)
(***************************************************************************)
\* the percentage as an exact fraction num / den
progress ==
    IF total_frames > 0
    THEN [num |-> current_frame_no * 100, den |-> total_frames]
    ELSE [num |-> 0, den |-> 1]

(***************************************************************************)
(* Initial state: a constructed VideoProcessor and an opened capture       *)
(***************************************************************************)
(***************************************************************************)
(* VehicleSpeedDetector.__init__, for a video of the given frame shapes    *)
(***************************************************************************)
DetectorInit(shapes) ==
    /\ known_distance_m = known_distance_default
    /\ scale_m_per_px = None
    /\ fps = None
    /\ show_speed = TRUE
    /\ object_selected = FALSE
    /\ selected_box = NoPoint
    /\ prev_centers = <<>>
    /\ prev_speeds = <<>>
    /\ prev_center = NoPoint
    /\ frame_size = NoPoint
    /\ frame_shape \in shapes
    /\ blob = NoPoint
    /\ speed_kmh = NoSpeed
    /\ display_speed = NoSpeed
    /\ last_match = [center |-> NoPoint, prev |-> NoPoint, sel |-> NoPoint, cands |-> {}]
    /\ frames_done = 0
    /\ last_call = [found |-> 0, average |-> NoSpeed, ncenters |-> 0, nspeeds |-> 0,
                    raised |-> FALSE]

\* Config() with its defaults; the capture reports one of the given frame rates
GuiInit(rates) ==
    /\ config_known_distance_m = known_distance_default
    /\ cap_fps \in rates
    /\ cap_opened = FALSE
    /\ current_speed = NoSpeed
    /\ running = FALSE

\* MultiVehicleTracker.__init__
TrackerInit ==
    /\ next_vehicle_id = 0
    /\ vehicles = [vid \in {} |-> None]
    /\ now = 0
    /\ created = <<>>
    /\ last_pass = [calls |-> 0, time |-> NoId, outcomes |-> <<>>, far |-> <<>>,
                    stale |-> {}, near_stale |-> FALSE]

\* VideoProcessor.__init__ with its FrameBuffer, and the capture handed to it
ProcessorInit(skips, lens, sizes) ==
    /\ buffer = <<>>
    /\ max_size \in sizes
    /\ stop_event = FALSE
    /\ processing_done = FALSE
    /\ frame_skip \in skips
    /\ current_frame_no = 0
    /\ total_frames = 0
    /\ read_thread = None
    /\ process_thread = None
    /\ readers = <<>>
    /\ processors = <<>>
    /\ main_pc = "idle"
    /\ src_len \in lens
    /\ cap_pos = 0
    /\ frame_count \in {0, src_len - 1, src_len}
    /\ enqueued = <<>>
    /\ processed = <<>>
    /\ failed = {}
    /\ stop_snapshot = {}
    /\ done_at_stop = FALSE
    /\ after_stop = {}
    /\ cleared = {}
    /\ last_put = [size |-> 0, ok |-> TRUE, same |-> FALSE]

VideoInit(skips, lens) ==
    /\ ProcessorInit(skips, lens, {BufferSize})
    /\ DetectorInit({<<FrameHeight, FrameWidth>>})

PipeInit ==
    /\ VideoInit(1..MaxFrameSkip, {SrcLen})
    /\ GuiInit({Fps})
    /\ TrackerInit

(***************************************************************************)
(* start_processing.read_frames: one step per access to shared state       *)
(***************************************************************************)
\* a test that holds the producer back only when the queue is full
NearFullAtCapacity(q, maxsize) ==
    Len(q) >= maxsize

\* buffer.qsize() >= buffer.maxsize * 0.9
NearFull(q, maxsize) ==
    10 * Len(q) >= 9 * maxsize

\* while not self.frame_buffer.should_stop
ReadWhile(i) ==
    /\ readers[i].pc = "while"
    /\ readers' = [readers EXCEPT ![i].pc = IF should_stop THEN "done" ELSE "full"]
    /\ UNCHANGED <<chanVars, vpVars, processors, main_pc, capVars, obsVars, detVars, guiVars, trkVars>>

\* a loop that reads whatever the channel holds
ReadFullNoWait(i) ==
    /\ readers[i].pc = "full"
    /\ readers' = [readers EXCEPT ![i].pc = "read"]
    /\ UNCHANGED <<chanVars, vpVars, processors, main_pc, capVars, obsVars, detVars, guiVars, trkVars>>

\* the near-full test: sleep and continue, or go on to read
ReadFull(i) ==
    /\ readers[i].pc = "full"
    /\ readers' = [readers EXCEPT
                     ![i].pc = IF NearFull(buffer, max_size) THEN "sleep" ELSE "read"]
    /\ UNCHANGED <<chanVars, vpVars, processors, main_pc, capVars, obsVars, detVars, guiVars, trkVars>>

\* QThread.msleep(10); continue
ReadSleep(i) ==
    /\ readers[i].pc = "sleep"
    /\ readers' = [readers EXCEPT ![i].pc = "while"]
    /\ UNCHANGED <<chanVars, vpVars, processors, main_pc, capVars, obsVars, detVars, guiVars, trkVars>>

\* a loop that counts the frame before it looks at ret
ReadCapCountsFailure(i) ==
    /\ readers[i].pc = "read"
    /\ IF cap_pos < src_len
       THEN /\ cap_pos' = cap_pos + 1
            /\ readers' = [readers EXCEPT ![i].pc = "inc", ![i].frame = cap_pos + 1]
            /\ UNCHANGED current_frame_no
       ELSE /\ cap_pos' = cap_pos
            /\ readers' = [readers EXCEPT ![i].pc = "setdone"]
            /\ current_frame_no' = current_frame_no + 1
    /\ UNCHANGED <<chanVars, frame_skip, total_frames, read_thread, process_thread,
                   processors, main_pc, src_len, frame_count, obsVars, detVars, guiVars, trkVars>>

\* ret, frame = cap.read(); a frame is named by its 1-based position in the source
ReadCap(i) ==
    /\ readers[i].pc = "read"
    /\ IF cap_pos < src_len
       THEN /\ cap_pos' = cap_pos + 1
            /\ readers' = [readers EXCEPT ![i].pc = "inc", ![i].frame = cap_pos + 1]
       ELSE /\ cap_pos' = cap_pos
            /\ readers' = [readers EXCEPT ![i].pc = "setdone"]
    /\ UNCHANGED <<chanVars, vpVars, processors, main_pc, src_len, frame_count, obsVars, detVars, guiVars, trkVars>>

\* if not ret: processing_done.set(); break
ReadSetDone(i) ==
    /\ readers[i].pc = "setdone"
    /\ processing_done' = TRUE
    /\ readers' = [readers EXCEPT ![i].pc = "done"]
    /\ UNCHANGED <<buffer, stop_event, max_size, vpVars, processors, main_pc, capVars, obsVars, detVars, guiVars, trkVars>>

\* a count that moves by frame_skip for every frame read
ReadIncByFrameSkip(i) ==
    /\ readers[i].pc = "inc"
    /\ current_frame_no' = current_frame_no + frame_skip
    /\ readers' = [readers EXCEPT
                     ![i].pc = IF readers[i].frames_to_skip > 0 THEN "while" ELSE "skip",
                     ![i].frames_to_skip = IF readers[i].frames_to_skip > 0
                                           THEN readers[i].frames_to_skip - 1
                                           ELSE readers[i].frames_to_skip,
                     ![i].read_since = readers[i].read_since + 1]
    /\ UNCHANGED <<chanVars, frame_skip, total_frames, read_thread, process_thread,
                   processors, main_pc, capVars, obsVars, detVars, guiVars, trkVars>>

\* self.current_frame_no += 1, then the dynamic-skip countdown
ReadInc(i) ==
    /\ readers[i].pc = "inc"
    /\ current_frame_no' = current_frame_no + 1
    /\ readers' = [readers EXCEPT
                     ![i].pc = IF readers[i].frames_to_skip > 0 THEN "while" ELSE "skip",
                     ![i].frames_to_skip = IF readers[i].frames_to_skip > 0
                                           THEN readers[i].frames_to_skip - 1
                                           ELSE readers[i].frames_to_skip,
                     ![i].read_since = readers[i].read_since + 1]
    /\ UNCHANGED <<chanVars, frame_skip, total_frames, read_thread, process_thread,
                   processors, main_pc, capVars, obsVars, detVars, guiVars, trkVars>>

\* a loop without the frame-skip test
ReadSkipOff(i) ==
    /\ readers[i].pc = "skip"
    /\ readers' = [readers EXCEPT ![i].pc = "put"]
    /\ UNCHANGED <<chanVars, vpVars, processors, main_pc, capVars, obsVars, detVars, guiVars, trkVars>>

\* if self.current_frame_no % self.frame_skip != 0: continue
ReadSkip(i) ==
    /\ readers[i].pc = "skip"
    /\ readers' = [readers EXCEPT
                     ![i].pc = IF current_frame_no % frame_skip # 0 THEN "while" ELSE "put"]
    /\ UNCHANGED <<chanVars, vpVars, processors, main_pc, capVars, obsVars, detVars, guiVars, trkVars>>

\* what the thread did at a put: the outcome ok for the frame it held
AfterPut(reader, ok) ==
    [reader EXCEPT
       !.skipping = ~ok,
       !.read_since = 0,
       !.put_failed = IF ok THEN reader.put_failed ELSE reader.put_failed \cup {reader.frame}]

\* a failed put that starts a run one frame short
ReadPutShortSkip(i) ==
    /\ readers[i].pc = "put"
    /\ LET r == Put(buffer, readers[i].frame, max_size) IN
         /\ buffer' = r.q
         /\ enqueued' = IF r.ok THEN Append(enqueued, readers[i].frame) ELSE enqueued
         /\ last_put' = [size |-> Len(buffer), ok |-> r.ok, same |-> r.q = buffer]
         /\ readers' = [readers EXCEPT
                          ![i] = [AfterPut(readers[i], r.ok) EXCEPT
                                    !.pc = "while",
                                    !.frames_to_skip = IF r.ok THEN readers[i].frames_to_skip
                                                       ELSE frame_skip - 1]]
    /\ UNCHANGED <<stop_event, processing_done, max_size, vpVars, processors, main_pc, capVars,
                   processed, failed, stop_snapshot, done_at_stop, after_stop, cleared, detVars, guiVars, trkVars>>

\* if not self.frame_buffer.put(frame): frames_to_skip = self.frame_skip
ReadPut(i) ==
    /\ readers[i].pc = "put"
    /\ LET r == Put(buffer, readers[i].frame, max_size) IN
         /\ buffer' = r.q
         /\ enqueued' = IF r.ok THEN Append(enqueued, readers[i].frame) ELSE enqueued
         /\ last_put' = [size |-> Len(buffer), ok |-> r.ok, same |-> r.q = buffer]
         /\ readers' = [readers EXCEPT
                          ![i] = [AfterPut(readers[i], r.ok) EXCEPT
                                    !.pc = "while",
                                    !.frames_to_skip = IF r.ok THEN readers[i].frames_to_skip
                                                       ELSE frame_skip]]
    /\ UNCHANGED <<stop_event, processing_done, max_size, vpVars, processors, main_pc, capVars,
                   processed, failed, stop_snapshot, done_at_stop, after_stop, cleared, detVars, guiVars, trkVars>>

(***************************************************************************)
(* start_processing.process_frames                                         *)
(***************************************************************************)
\* a loop test that leaves the loop on the stop flag alone
LoopTestStopOnly(pc, stop, done, empty) ==
    CASE pc = "while" -> IF stop THEN "done" ELSE "get"
      [] pc = "chk_done" -> "get"
      [] pc = "chk_empty" -> "get"

\* a loop test that never looks at the channel
LoopTestNoEmpty(pc, stop, done, empty) ==
    CASE pc = "while" -> IF stop THEN "chk_done" ELSE "get"
      [] pc = "chk_done" -> IF done THEN "done" ELSE "get"
      [] pc = "chk_empty" -> "get"

\* the loop test not (should_stop and processing_done.is_set() and buffer.empty()),
\* read left to right with short-circuit: the position reached after one operand
LoopTest(pc, stop, done, empty) ==
    CASE pc = "while" -> IF stop THEN "chk_done" ELSE "get"
      [] pc = "chk_done" -> IF done THEN "chk_empty" ELSE "get"
      [] pc = "chk_empty" -> IF empty THEN "done" ELSE "get"

ProcTest(j) ==
    /\ processors[j].pc \in {"while", "chk_done", "chk_empty"}
    /\ processors' = [processors EXCEPT
                        ![j].pc = LoopTest(processors[j].pc, should_stop,
                                           processing_done, buffer = <<>>)]
    /\ UNCHANGED <<chanVars, vpVars, readers, main_pc, capVars, obsVars, detVars, guiVars, trkVars>>

\* frame = self.frame_buffer.get(); if frame is None: msleep(1); continue
ProcGet(j) ==
    /\ processors[j].pc = "get"
    /\ LET r == Get(buffer) IN
         /\ buffer' = r.q
         /\ processors' = [processors EXCEPT
                             ![j].pc = IF r.frame = None THEN "while" ELSE "call",
                             ![j].frame = r.frame]
    /\ UNCHANGED <<stop_event, processing_done, max_size, vpVars, readers, main_pc, capVars, obsVars, detVars, guiVars, trkVars>>

\* a callback error that is not caught ends the thread
AfterCallbackUncaught(raised) ==
    IF raised THEN "dead" ELSE "while"

\* try: process_fn(frame) except Exception: logger.error(...): where the loop goes next
AfterCallback(raised) ==
    "while"

\* process_fn is the caller's: it returns or raises
ProcCall(j, raised) ==
    /\ processors[j].pc = "call"
    /\ raised => Cardinality(failed) < MaxRaises
    /\ processed' = Append(processed, processors[j].frame)
    /\ failed' = IF raised THEN failed \cup {processors[j].frame} ELSE failed
    /\ after_stop' = IF stop_event THEN after_stop \cup {processors[j].frame} ELSE after_stop
    /\ processors' = [processors EXCEPT ![j].pc = AfterCallback(raised), ![j].frame = None]
    /\ UNCHANGED <<chanVars, vpVars, readers, main_pc, capVars,
                   enqueued, stop_snapshot, done_at_stop, cleared, last_put, detVars, guiVars, trkVars>>

(***************************************************************************)
(* The calling thread: start_processing, stop_processing, the seek keys    *)
(***************************************************************************)
Range(q) == {q[k] : k \in 1..Len(q)}

\* a read_frames thread that was started: frames_to_skip = 0
NewReader ==
    [pc |-> "while", frames_to_skip |-> 0, frame |-> None, skipping |-> FALSE,
     read_since |-> 0, put_failed |-> {}]

\* a process_frames thread that was started
NewProcessor ==
    [pc |-> "while", frame |-> None]

\* a start_processing that clears the stop flag before it starts the threads
StartThreadsClearingStop ==
    /\ Len(readers) < MaxStarts
    /\ total_frames' = frame_count
    /\ readers' = Append(readers, NewReader)
    /\ processors' = Append(processors, NewProcessor)
    /\ read_thread' = Len(readers) + 1
    /\ process_thread' = Len(processors) + 1
    /\ main_pc' = "idle"
    /\ stop_event' = FALSE
    /\ UNCHANGED <<buffer, processing_done, max_size, frame_skip, current_frame_no, capVars, obsVars,
                   detVars, guiVars, trkVars>>

\* start_processing: read the capture's properties, create and start both threads
StartThreads ==
    /\ Len(readers) < MaxStarts
    /\ total_frames' = frame_count
    /\ readers' = Append(readers, NewReader)
    /\ processors' = Append(processors, NewProcessor)
    /\ read_thread' = Len(readers) + 1
    /\ process_thread' = Len(processors) + 1
    /\ main_pc' = "idle"
    /\ UNCHANGED <<chanVars, frame_skip, current_frame_no, capVars, obsVars, detVars, guiVars, trkVars>>

\* start_processing as the playback loop calls it: once at startup, and afterwards
\* only when a stop_processing has returned
StartProcessing ==
    /\ main_pc \in {"idle", "stopped"}
    /\ read_thread = None \/ stop_event
    /\ StartThreads

\* start_processing called by any caller, whatever was started before
StartAgain ==
    /\ main_pc \in {"idle", "stopped"}
    /\ StartThreads

\* stop_processing, called on a processor that was started: self.frame_buffer.stop()
StopProcessing ==
    /\ main_pc \in {"idle", "stopped"}
    /\ read_thread # None
    /\ stop_event' = TRUE
    /\ stop_snapshot' = IF stop_event THEN stop_snapshot ELSE Range(buffer)
    /\ done_at_stop' = IF stop_event THEN done_at_stop ELSE processing_done
    /\ main_pc' = "join_read"
    /\ UNCHANGED <<buffer, processing_done, max_size, vpVars, readers, processors, capVars,
                   enqueued, processed, failed, after_stop, cleared, last_put, detVars, guiVars, trkVars>>

\* if self.read_thread: self.read_thread.join()
JoinRead ==
    /\ main_pc = "join_read"
    /\ IF read_thread = None THEN TRUE ELSE readers[read_thread].pc = "done"
    /\ main_pc' = "join_process"
    /\ UNCHANGED <<chanVars, vpVars, readers, processors, capVars, obsVars, detVars, guiVars, trkVars>>

\* if self.process_thread: self.process_thread.join()
JoinProcess ==
    /\ main_pc = "join_process"
    /\ IF process_thread = None THEN TRUE
       ELSE processors[process_thread].pc \in {"done", "dead"}
    /\ main_pc' = "clear"
    /\ UNCHANGED <<chanVars, vpVars, readers, processors, capVars, obsVars, detVars, guiVars, trkVars>>

\* FrameBuffer.clear: while not self.buffer.empty(): self.buffer.get()
\* the test and the get are two accesses, and the get blocks while the queue is empty
Clear ==
    /\ main_pc \in {"clear", "clear_get"}
    /\ IF main_pc = "clear"
       THEN /\ main_pc' = IF buffer = <<>> THEN "stopped" ELSE "clear_get"
            /\ UNCHANGED <<buffer, cleared>>
       ELSE /\ buffer # <<>>
            /\ buffer' = Tail(buffer)
            /\ cleared' = cleared \cup {Head(buffer)}
            /\ main_pc' = "clear"
    /\ UNCHANGED <<stop_event, processing_done, max_size, vpVars, readers, processors, capVars,
                   enqueued, processed, failed, stop_snapshot, done_at_stop, after_stop,
                   last_put, detVars, guiVars, trkVars>>

Max(a, b) == IF a >= b THEN a ELSE b
Min(a, b) == IF a <= b THEN a ELSE b

\* the positions the replay, backward and forward keys move to
SeekTargets ==
    {0, Max(current_frame_no - SeekStep, 0)}
      \cup (IF frame_count > 0
            THEN {Min(current_frame_no + SeekStep, frame_count - 1)}
            ELSE {})

\* after stop_processing: cap.set(CAP_PROP_POS_FRAMES, new_pos); current_frame_no = new_pos
Seek(new_pos) ==
    /\ main_pc = "stopped"
    /\ cap_pos' = new_pos
    /\ current_frame_no' = new_pos
    /\ main_pc' = "idle"
    /\ UNCHANGED <<chanVars, frame_skip, total_frames, read_thread, process_thread,
                   readers, processors, src_len, frame_count, obsVars, detVars, guiVars, trkVars>>

PipeNext ==
    \/ \E i \in 1..Len(readers) :
         \/ ReadWhile(i)
         \/ ReadFull(i)
         \/ ReadSleep(i)
         \/ ReadCap(i)
         \/ ReadSetDone(i)
         \/ ReadInc(i)
         \/ ReadSkip(i)
         \/ ReadPut(i)
    \/ \E j \in 1..Len(processors) :
         \/ ProcTest(j)
         \/ ProcGet(j)
         \/ \E raised \in BOOLEAN : ProcCall(j, raised)
    \/ StartProcessing
    \/ StopProcessing
    \/ JoinRead
    \/ JoinProcess
    \/ Clear
    \/ \E new_pos \in SeekTargets : Seek(new_pos)

SpecPipe == PipeInit /\ [][PipeNext]_vars

(***************************************************************************)
(* The same VideoProcessor under any sequence of calls on a short source   *)
(***************************************************************************)
ApiInit ==
    /\ VideoInit({1}, {1})
    /\ GuiInit({Fps})
    /\ TrackerInit

ApiNext ==
    \/ PipeNext
    \/ StartAgain

SpecApi == ApiInit /\ [][ApiNext]_vars

(***************************************************************************)
(* The playback loop's pipeline with the scheduling the threads get: every *)
(* started thread keeps running, and a stop_processing that was entered    *)
(* keeps going; the calls themselves are the operator's choice             *)
(***************************************************************************)
ReaderStep(i) ==
    /\ i <= Len(readers)
    /\ \/ ReadWhile(i)
       \/ ReadFull(i)
       \/ ReadSleep(i)
       \/ ReadCap(i)
       \/ ReadSetDone(i)
       \/ ReadInc(i)
       \/ ReadSkip(i)
       \/ ReadPut(i)

ProcStep(j) ==
    /\ j <= Len(processors)
    /\ \/ ProcTest(j)
       \/ ProcGet(j)
       \/ \E raised \in BOOLEAN : ProcCall(j, raised)

Fairness ==
    /\ \A i \in 1..MaxStarts : WF_vars(ReaderStep(i))
    /\ \A j \in 1..MaxStarts : WF_vars(ProcStep(j))
    /\ WF_vars(JoinRead \/ JoinProcess \/ Clear)

FairPipe == PipeInit /\ [][PipeNext]_vars /\ Fairness

(***************************************************************************)
(* A FrameBuffer alone, under any interleaving of its operations           *)
(***************************************************************************)
ChanInit ==
    /\ VideoInit({1}, {SrcLen})
    /\ GuiInit({Fps})
    /\ TrackerInit

\* a call of FrameBuffer.put
ChanPut(frame) ==
    /\ LET r == Put(buffer, frame, max_size) IN
         /\ buffer' = r.q
         /\ last_put' = [size |-> Len(buffer), ok |-> r.ok, same |-> r.q = buffer]
    /\ UNCHANGED <<stop_event, processing_done, max_size, vpVars, threadVars, capVars, enqueued,
                   processed, failed, stop_snapshot, done_at_stop, after_stop, cleared, detVars, guiVars, trkVars>>

\* a call of FrameBuffer.get
ChanGet ==
    /\ buffer' = Get(buffer).q
    /\ UNCHANGED <<stop_event, processing_done, max_size, vpVars, threadVars, capVars, obsVars, detVars, guiVars, trkVars>>

\* a call of FrameBuffer.clear, which then runs as Clear
ChanClear ==
    /\ main_pc \in {"idle", "stopped"}
    /\ main_pc' = "clear"
    /\ UNCHANGED <<chanVars, vpVars, readers, processors, capVars, obsVars, detVars, guiVars, trkVars>>

\* FrameBuffer.stop
ChanStop ==
    /\ stop_event' = TRUE
    /\ UNCHANGED <<buffer, processing_done, max_size, vpVars, threadVars, capVars, obsVars, detVars, guiVars, trkVars>>

ChanNext ==
    \/ \E frame \in 1..SrcLen : ChanPut(frame)
    \/ ChanGet
    \/ ChanClear
    \/ Clear
    \/ ChanStop

SpecChan == ChanInit /\ [][ChanNext]_vars

(***************************************************************************)
(* FrameBuffer.clear with a consumer at work and no producer: put is       *)
(* called only while no clear is going on                                  *)
(***************************************************************************)
ClrInit ==
    /\ VideoInit({1}, {SrcLen})
    /\ GuiInit({Fps})
    /\ TrackerInit

\* a call of FrameBuffer.put outside of clear
ChanPutOutsideClear(frame) ==
    /\ main_pc \in {"idle", "stopped"}
    /\ ChanPut(frame)

ClrNext ==
    \/ \E frame \in 1..SrcLen : ChanPutOutsideClear(frame)
    \/ ChanGet
    \/ ChanClear
    \/ Clear

SpecClr == ClrInit /\ [][ClrNext]_vars

(***************************************************************************)
(* Two start_processing calls on one VideoProcessor and a longer source:   *)
(* two producers share the channel, so that a put can find it full.  Of    *)
(* the consumers a producer sees what their FrameBuffer.get calls do to    *)
(* the channel, at any moment                                              *)
(***************************************************************************)
DynInit ==
    /\ VideoInit(1..MaxFrameSkip, {SrcLen + 2})
    /\ frame_count = src_len
    /\ GuiInit({Fps})
    /\ TrackerInit

\* start_processing called twice in a row on a fresh VideoProcessor: the second
\* call overwrites read_thread and process_thread, all four threads run
StartTwice ==
    /\ readers = <<>>
    /\ main_pc = "idle"
    /\ total_frames' = frame_count
    /\ readers' = <<NewReader, NewReader>>
    /\ processors' = <<NewProcessor, NewProcessor>>
    /\ read_thread' = Len(readers')
    /\ process_thread' = Len(processors')
    /\ UNCHANGED <<chanVars, frame_skip, current_frame_no, main_pc, capVars, obsVars,
                   detVars, guiVars, trkVars>>

DynNext ==
    \/ StartTwice
    \/ \E i \in 1..Len(readers) :
         \/ ReadWhile(i)
         \/ ReadFull(i)
         \/ ReadSleep(i)
         \/ ReadCap(i)
         \/ ReadSetDone(i)
         \/ ReadInc(i)
         \/ ReadSkip(i)
         \/ ReadPut(i)
    \/ ChanGet

SpecDyn == DynInit /\ [][DynNext]_vars

(***************************************************************************)
(* One start_processing, its read_frames and process_frames threads, on    *)
(* channels of several capacities and a source longer than the largest     *)
(***************************************************************************)
\* the buffer_size values: the smallest, a small one, one with 0.9 * N < N - 1
BufferSizes ==
    {1, BufferSize, LargeBuffer}

OneInit ==
    /\ ProcessorInit(1..MaxFrameSkip, {LargeBuffer + 1}, BufferSizes)
    /\ DetectorInit({<<FrameHeight, FrameWidth>>})
    /\ frame_count = src_len
    /\ GuiInit({Fps})
    /\ TrackerInit

\* the one start_processing call
StartOnce ==
    /\ readers = <<>>
    /\ main_pc = "idle"
    /\ StartThreads

OneNext ==
    \/ StartOnce
    \/ \E i \in 1..Len(readers) : ReaderStep(i)
    \/ \E j \in 1..Len(processors) :
         \/ ProcTest(j)
         \/ ProcGet(j)
         \/ ProcCall(j, FALSE)

SpecOne == OneInit /\ [][OneNext]_vars

(***************************************************************************)
(* VehicleSpeedDetector                                                    *)
(***************************************************************************)
\* the largest r with r * r <= n, by bisection between lo and hi
RECURSIVE SqrtBetween(_, _, _)
SqrtBetween(n, lo, hi) ==
    IF lo >= hi THEN lo
    ELSE LET mid == (lo + hi + 1) \div 2 IN
           IF mid * mid <= n THEN SqrtBetween(n, mid, hi) ELSE SqrtBetween(n, lo, mid - 1)

\* np.linalg.norm(curr - prev), in hundredths of a pixel
Norm(curr, prev) ==
    LET dx == curr[1] - prev[1]
        dy == curr[2] - prev[2]
    IN SqrtBetween((dx * dx + dy * dy) * 10000, 0, 46340)

Abs(a) == IF a < 0 THEN 0 - a ELSE a

\* abs(center[0] - sel_x) + abs(center[1] - sel_y)
Manhattan(center, sel) ==
    Abs(center[1] - sel[1]) + Abs(center[2] - sel[2])

\* x, y, w, h = cv2.boundingRect(contour); center = (x + w // 2, y + h // 2)
Center(contour) ==
    <<contour.x + contour.w \div 2, contour.y + contour.h \div 2>>

\* one step of sorted(..., key=cv2.contourArea, reverse=True): a stable insertion
RECURSIVE InsertByArea(_, _)
InsertByArea(sorted, contour) ==
    IF sorted = <<>> THEN <<contour>>
    ELSE IF Head(sorted).area >= contour.area
         THEN <<Head(sorted)>> \o InsertByArea(Tail(sorted), contour)
         ELSE <<contour>> \o sorted

\* sorted(contours, key=cv2.contourArea, reverse=True)
RECURSIVE SortByArea(_)
SortByArea(contours) ==
    IF contours = <<>> THEN <<>>
    ELSE InsertByArea(SortByArea(SubSeq(contours, 1, Len(contours) - 1)),
                      contours[Len(contours)])

\* contours[:5]
Largest(contours) ==
    SubSeq(contours, 1, Min(Len(contours), MaxContours))

\* the contours of the loop that pass cv2.contourArea(contour) > self.min_contour_area
Qualifying(contours) ==
    SelectSeq(Largest(SortByArea(contours)), LAMBDA c : c.area > min_contour_area)

\* a loop that falls back on the reference point when no contour qualifies
RECURSIVE ClosestOrSelected(_, _, _)
ClosestOrSelected(contours, ref, best) ==
    IF contours = <<>> THEN (IF best = NoPoint THEN ref ELSE best)
    ELSE LET center == Center(Head(contours)) IN
           IF best = NoPoint \/ Manhattan(center, ref) < Manhattan(best, ref)
           THEN ClosestOrSelected(Tail(contours), ref, center)
           ELSE ClosestOrSelected(Tail(contours), ref, best)

\* the loop over the contours with the reference point ref: dist < min_dist keeps
\* the first of the nearest; best is closest_contour so far, NoPoint for None
RECURSIVE Closest(_, _, _)
Closest(contours, ref, best) ==
    IF contours = <<>> THEN best
    ELSE LET center == Center(Head(contours)) IN
           IF best = NoPoint \/ Manhattan(center, ref) < Manhattan(best, ref)
           THEN Closest(Tail(contours), ref, center)
           ELSE Closest(Tail(contours), ref, best)

\* the reference point of the loop: sel_x, sel_y = self.selected_box
Reference ==
    selected_box

\* an append that never evicts
PushWindowKeepAll(history, value) ==
    Append(history, value)

\* append and pop(0) once the list is longer than speed_window
PushWindow(history, value) ==
    LET longer == Append(history, value) IN
      IF Len(longer) > speed_window THEN Tail(longer) ELSE longer

\* a factor taken from the column of the center instead of its row
PerspectiveFactorOfColumn(curr, height) ==
    1000 + (curr[1] * 500) \div height

\* perspective_factor = 1.0 + (curr[1] / frame.shape[0]) * 0.5, in thousandths
PerspectiveFactor(curr, height) ==
    1000 + (curr[2] * 500) \div height

\* the speed of one pair left in m/s: no conversion to km/h
PairSpeedInMps(prev, curr, height) ==
    LET distance_um == (((Norm(curr, prev) * scale_m_per_px) \div 10)
                          * PerspectiveFactor(curr, height)) \div 1000
    IN (distance_um * fps) \div 1000

\* the speed of one pair of centers in thousandths of a km/h:
\* pixel_distance * scale_m_per_px * perspective_factor / (1 / fps) * 3.6
PairSpeed(prev, curr, height) ==
    LET distance_um == (((Norm(curr, prev) * scale_m_per_px) \div 10)
                          * PerspectiveFactor(curr, height)) \div 1000
        speed_umps == distance_um * fps
    IN ((speed_umps * 36) \div 10) \div 1000

\* speeds of the consecutive pairs of prev_centers, oldest first
PairSpeeds(centers, height) ==
    [i \in 1..(Len(centers) - 1) |-> PairSpeed(centers[i], centers[i + 1], height)]

RECURSIVE SumSeq(_)
SumSeq(q) == IF q = <<>> THEN 0 ELSE Head(q) + SumSeq(Tail(q))

\* np.linspace(0.5, 1.0, n) scaled to whole numbers: n - 1 + i for i = 0..n-1
Weights(n) ==
    IF n = 1 THEN <<1>> ELSE [i \in 1..n |-> n - 1 + (i - 1)]

\* np.mean(speeds * weights): the weighted sum over the number of speeds, not over
\* the sum of the weights (Weights(n) is linspace times 2 for n = 1, times
\* 2 * (n - 1) otherwise)
WeightedMean(speeds) ==
    LET w == Weights(Len(speeds))
        n == Len(speeds)
    IN SumSeq([i \in 1..n |-> speeds[i] * w[i]])
         \div (n * (IF n = 1 THEN 2 ELSE 2 * (n - 1)))

\* np.average(speeds, weights=weights)
WeightedAverage(speeds) ==
    LET w == Weights(Len(speeds)) IN
      SumSeq([i \in 1..Len(speeds) |-> speeds[i] * w[i]]) \div SumSeq(w)

Sign(a) == IF a > 0 THEN 1 ELSE IF a < 0 THEN 0 - 1 ELSE 0

\* no rate limit
RateLimitOff(speed, history) ==
    speed

\* a limit that moves by the full max_speed_change whenever the speed differs from
\* the previous one
RateLimitFullStep(speed, history) ==
    IF history # <<>> /\ speed # history[Len(history)]
    THEN history[Len(history)] + max_speed_change * Sign(speed - history[Len(history)])
    ELSE speed

\* the rate limit against self.prev_speeds[-1]
RateLimit(speed, history) ==
    IF history # <<>> /\ Abs(speed - history[Len(history)]) > max_speed_change
    THEN history[Len(history)] + max_speed_change * Sign(speed - history[Len(history)])
    ELSE speed

RECURSIVE InsertSorted(_, _)
InsertSorted(sorted, a) ==
    IF sorted = <<>> THEN <<a>>
    ELSE IF Head(sorted) <= a THEN <<Head(sorted)>> \o InsertSorted(Tail(sorted), a)
         ELSE <<a>> \o sorted

RECURSIVE SortInts(_)
SortInts(q) == IF q = <<>> THEN <<>> ELSE InsertSorted(SortInts(Tail(q)), Head(q))

\* np.median
Median(q) ==
    LET sorted == SortInts(q)
        n == Len(q)
    IN IF n % 2 = 1 THEN sorted[(n + 1) \div 2]
       ELSE (sorted[n \div 2] + sorted[n \div 2 + 1]) \div 2

\* a test that asks for a third center before the first speed
EnoughCentersLate(centers) ==
    Len(centers) > 2

\* if len(self.prev_centers) > 1
EnoughCenters(centers) ==
    Len(centers) > 1

\* process_frame's result: return frame, speed_kmh
Returned(speed, history) ==
    speed

\* a scale worked out for the reference width whatever the width of the video
ScaleAtReferenceWidth(distance_m, frame_width) ==
    (distance_m * 100000 * 1000) \div (ResizeWidth * Cos30)

\* the scale of set_video_info in 1e-5 m per pixel:
\* known_distance_m / (frame_width * np.cos(np.radians(30)))
Scale(distance_m, frame_width) ==
    (distance_m * 100000 * 1000) \div (frame_width * Cos30)

\* set_video_info(frame_width, fps)
set_video_info(frame_width, new_fps) ==
    /\ scale_m_per_px' = Scale(known_distance_m, frame_width)
    /\ fps' = new_fps

SetVideoInfo(frame_width, new_fps) ==
    /\ set_video_info(frame_width, new_fps)
    /\ UNCHANGED <<pipeVars, guiVars, trkVars, known_distance_m, show_speed, object_selected,
                   selected_box, prev_centers, prev_speeds, prev_center, frame_size,
                   frame_shape, blob, speed_kmh, display_speed, last_match, frames_done,
                   last_call>>

\* a select_object that also starts the histories afresh
select_object_reset(event, x, y) ==
    /\ IF event = "LBUTTONDOWN"
       THEN /\ selected_box' = <<x, y>>
            /\ object_selected' = TRUE
            /\ prev_centers' = <<>>
            /\ prev_speeds' = <<>>
       ELSE UNCHANGED <<selected_box, object_selected, prev_centers, prev_speeds>>
    /\ UNCHANGED <<known_distance_m, scale_m_per_px, fps, show_speed, prev_center,
                   frame_size, frame_shape, blob, speed_kmh, display_speed, last_match,
                   frames_done, last_call>>

\* select_object(event, x, y, flags, param)
select_object(event, x, y) ==
    /\ IF event = "LBUTTONDOWN"
       THEN /\ selected_box' = <<x, y>>
            /\ object_selected' = TRUE
       ELSE UNCHANGED <<selected_box, object_selected>>
    /\ UNCHANGED <<known_distance_m, scale_m_per_px, fps, show_speed, prev_centers,
                   prev_speeds, prev_center, frame_size, frame_shape, blob, speed_kmh,
                   display_speed, last_match, frames_done, last_call>>

SelectObject(event, x, y) ==
    /\ select_object(event, x, y)
    /\ UNCHANGED <<pipeVars, guiVars, trkVars>>

\* process_frame(frame), the frame's contours as cv2.findContours lists them; the
\* callers set the video info before the first frame.  Each local of the method
\* is bound once, as a one-element choice.  With fps = 0 the division 1 / self.fps
\* raises ZeroDivisionError, after the center was appended.
process_frame(contours) ==
    /\ frames_done < MaxFrames
    /\ scale_m_per_px # None
    /\ frames_done' = frames_done + 1
    /\ frame_size' = IF frame_size = NoPoint /\ frame_shape[2] > ResizeWidth
                     THEN <<ResizeWidth, (frame_shape[1] * ResizeWidth) \div frame_shape[2]>>
                     ELSE frame_size
    /\ \E found \in {Qualifying(contours)} :
       \E closest \in {IF object_selected THEN Closest(found, Reference, NoPoint)
                       ELSE NoPoint} :
         /\ last_match' = [center |-> closest, prev |-> prev_center, sel |-> selected_box,
                           cands |-> {Center(found[k]) : k \in 1..Len(found)}]
         /\ IF object_selected /\ closest # NoPoint
            THEN \E centers \in {PushWindow(prev_centers, closest)} :
                   /\ prev_centers' = centers
                   /\ IF EnoughCenters(centers) /\ fps = 0
                      THEN /\ speed_kmh' = NoSpeed
                           /\ display_speed' = NoSpeed
                           /\ last_call' = [found |-> Len(found), average |-> NoSpeed,
                                            ncenters |-> Len(prev_centers),
                                            nspeeds |-> Len(prev_speeds), raised |-> TRUE]
                           /\ UNCHANGED <<prev_speeds, prev_center>>
                      ELSE /\ prev_center' = closest
                           /\ IF EnoughCenters(centers)
                              THEN \E speeds \in {PairSpeeds(centers, frame_shape[1])} :
                                   \E average \in {WeightedAverage(speeds)} :
                                   \E speed \in {RateLimit(average, prev_speeds)} :
                                   \E history \in {PushWindow(prev_speeds, speed)} :
                                     /\ prev_speeds' = history
                                     /\ display_speed' = Median(history)
                                     /\ speed_kmh' = Returned(speed, history)
                                     /\ last_call' = [found |-> Len(found),
                                                      average |-> average,
                                                      ncenters |-> Len(prev_centers),
                                                      nspeeds |-> Len(prev_speeds),
                                                      raised |-> FALSE]
                              ELSE /\ speed_kmh' = NoSpeed
                                   /\ display_speed' = NoSpeed
                                   /\ last_call' = [found |-> Len(found),
                                                    average |-> NoSpeed,
                                                    ncenters |-> Len(prev_centers),
                                                    nspeeds |-> Len(prev_speeds),
                                                    raised |-> FALSE]
                                   /\ UNCHANGED prev_speeds
            ELSE /\ speed_kmh' = NoSpeed
                 /\ display_speed' = NoSpeed
                 /\ last_call' = [found |-> Len(found), average |-> NoSpeed,
                                  ncenters |-> Len(prev_centers),
                                  nspeeds |-> Len(prev_speeds), raised |-> FALSE]
                 /\ UNCHANGED <<prev_centers, prev_speeds, prev_center>>
    /\ UNCHANGED <<known_distance_m, scale_m_per_px, fps, show_speed, object_selected,
                   selected_box, frame_shape>>

ProcessFrame(contours) ==
    /\ process_frame(contours)
    /\ UNCHANGED <<pipeVars, guiVars, trkVars, blob>>

\* the contours a frame can hold: bounding boxes with their contour areas
Contours ==
    {[x |-> 0, y |-> 0, w |-> 30, h |-> 20, area |-> 600],
     [x |-> 30, y |-> 40, w |-> 30, h |-> 20, area |-> 550],
     [x |-> 0, y |-> 0, w |-> 20, h |-> 10, area |-> 200]}

\* the contour lists of one frame: up to MaxBlobs different contours, in any order
Frames ==
    {q \in UNION {[1..n -> Contours] : n \in 0..MaxBlobs} :
        \A k, m \in 1..Len(q) : q[k] = q[m] => k = m}

\* the points the operator clicks
Clicks ==
    {<<15, 10>>, <<45, 50>>}

DetInit ==
    /\ VideoInit({1}, {SrcLen})
    /\ frame_count = src_len
    /\ GuiInit({Fps})
    /\ TrackerInit

DetNext ==
    \/ SetVideoInfo(FrameWidth, Fps)
    \/ \E event \in {"LBUTTONDOWN", "MOUSEMOVE"}, p \in Clicks : SelectObject(event, p[1], p[2])
    \/ \E contours \in Frames : ProcessFrame(contours)

SpecDet == DetInit /\ [][DetNext]_vars

(***************************************************************************)
(* The detector on a video of one object that moves by the same            *)
(* displacement in every frame, over a background that does not move       *)
(***************************************************************************)
\* the one contour cv2.findContours lists for the object when its bounding box
\* is centered at center
BlobContour(center) ==
    [x |-> center[1] - 15, y |-> center[2] - 10, w |-> 30, h |-> 20, area |-> 600]

\* where the object is in the first frame that shows it
Starts ==
    {<<100, 100>>, <<200, 40>>}

\* its displacement per frame, in pixels: along a row, along a column, both
Steps ==
    {<<10, 0>>, <<40, 0>>, <<0, 10>>, <<0, -10>>, <<10, 10>>}

\* the object enters the scene
BlobAppears(start, step) ==
    /\ blob = NoPoint
    /\ blob' = <<start, step>>
    /\ UNCHANGED <<pipeVars, guiVars, trkVars, known_distance_m, scale_m_per_px, fps,
                   show_speed, object_selected, selected_box, prev_centers, prev_speeds,
                   prev_center, frame_size, frame_shape, speed_kmh, display_speed,
                   last_match, frames_done, last_call>>

\* process_frame on the next frame of the video: the object is its only contour
MovingFrame ==
    /\ blob # NoPoint
    /\ process_frame(<<BlobContour(blob[1])>>)
    /\ blob' = <<<<blob[1][1] + blob[2][1], blob[1][2] + blob[2][2]>>, blob[2]>>
    /\ UNCHANGED <<pipeVars, guiVars, trkVars>>

CvInit ==
    /\ VideoInit({1}, {SrcLen})
    /\ frame_count = src_len
    /\ GuiInit({Fps})
    /\ TrackerInit

CvNext ==
    \/ SetVideoInfo(FrameWidth, Fps)
    \/ \E p \in Clicks : SelectObject("LBUTTONDOWN", p[1], p[2])
    \/ \E start \in Starts, step \in Steps : BlobAppears(start, step)
    \/ MovingFrame

SpecCv == CvInit /\ [][CvNext]_vars

(***************************************************************************)
(* The detector on videos of several frame shapes: a detector is built for *)
(* each video and handed the video's frames as they are read               *)
(***************************************************************************)
\* (height, width) of the videos: the reference shape, half and twice of it, and
\* a wider frame of the same height
Shapes ==
    {<<FrameHeight, FrameWidth>>, <<FrameHeight \div 2, FrameWidth \div 2>>,
     <<2 * FrameHeight, 2 * FrameWidth>>, <<FrameHeight, FrameWidth + 160>>}

\* detector = VehicleSpeedDetector(); detector.set_video_info(width, fps) for a
\* video of the given shape
NewDetector(shape) ==
    /\ frame_shape' = shape
    /\ known_distance_m' = known_distance_default
    /\ scale_m_per_px' = Scale(known_distance_default, shape[2])
    /\ fps' = Fps
    /\ show_speed' = TRUE
    /\ object_selected' = FALSE
    /\ selected_box' = NoPoint
    /\ prev_centers' = <<>>
    /\ prev_speeds' = <<>>
    /\ prev_center' = NoPoint
    /\ frame_size' = NoPoint
    /\ speed_kmh' = NoSpeed
    /\ display_speed' = NoSpeed
    /\ last_match' = [center |-> NoPoint, prev |-> NoPoint, sel |-> NoPoint, cands |-> {}]
    /\ frames_done' = 0
    /\ last_call' = [found |-> 0, average |-> NoSpeed, ncenters |-> 0, nspeeds |-> 0,
                     raised |-> FALSE]
    /\ UNCHANGED <<pipeVars, guiVars, trkVars, blob>>

\* (width, height) of the image process_frame extracts the contours from: the
\* frame, or the frame resized to self.frame_size
ProcessedSize ==
    IF frame_size # NoPoint THEN frame_size
    ELSE IF frame_shape[2] > ResizeWidth
         THEN <<ResizeWidth, (frame_shape[1] * ResizeWidth) \div frame_shape[2]>>
         ELSE <<frame_shape[2], frame_shape[1]>>

\* contours of an image of the given size: along the top edge (two rows high,
\* and higher), in the middle (and 20 px to the right), in the bottom right
\* corner (and higher)
ContoursIn(size) ==
    {[x |-> 0, y |-> 0, w |-> 600, h |-> 2, area |-> 599],
     [x |-> 0, y |-> 0, w |-> 600, h |-> 40, area |-> 23000],
     [x |-> size[1] \div 2 - 15, y |-> size[2] \div 2 - 10, w |-> 30, h |-> 20, area |-> 600],
     [x |-> size[1] \div 2 + 5, y |-> size[2] \div 2 - 10, w |-> 30, h |-> 20, area |-> 600],
     [x |-> size[1] - 30, y |-> size[2] - 20, w |-> 30, h |-> 20, area |-> 600],
     [x |-> size[1] - 30, y |-> size[2] - 40, w |-> 30, h |-> 40, area |-> 1200]}

\* the contours of the coming frame: a tracked object is within MaxMove of
\* where the frame before showed it
NextContours ==
    {contour \in ContoursIn(ProcessedSize) :
        prev_centers = <<>>
          \/ Manhattan(Center(contour), prev_centers[Len(prev_centers)]) <= MaxMove}

ShapeInit ==
    /\ VideoInit({1}, {SrcLen})
    /\ frame_count = src_len
    /\ GuiInit({Fps})
    /\ TrackerInit

ShapeNext ==
    \/ \E shape \in Shapes : NewDetector(shape)
    \/ \E p \in Clicks : SelectObject("LBUTTONDOWN", p[1], p[2])
    \/ \E contour \in NextContours : ProcessFrame(<<contour>>)

SpecShape == ShapeInit /\ [][ShapeNext]_vars

(***************************************************************************)
(* The speed computation of process_frame by itself: the weighted speed of *)
(* a window of centers on the top row, 10 px apart, at 0.01 m per pixel    *)
(***************************************************************************)
\* the centers of n frames of an object that moves by step along row 0 from x0
RowWindow(x0, step, n) ==
    [i \in 1..n |-> <<x0 + (i - 1) * step, 0>>]

\* the windows of 2 to speed_window such centers that lie inside the frame
RowWindows ==
    {centers \in {RowWindow(10 * k, step, n) :
                     k \in 0..MaxRowStart, step \in {10, -10}, n \in 2..speed_window} :
        \A i \in 1..Len(centers) : centers[i][1] >= 0}

\* a detector with scale_m_per_px = 0.01 at the video's frame rate, its window
\* holding the given centers
RowInit ==
    /\ ProcessorInit({1}, {SrcLen}, {BufferSize})
    /\ frame_count = src_len
    /\ GuiInit({Fps})
    /\ TrackerInit
    /\ known_distance_m = known_distance_default
    /\ scale_m_per_px = 1000
    /\ fps = Fps
    /\ show_speed = TRUE
    /\ object_selected = TRUE
    /\ prev_centers \in RowWindows
    /\ selected_box = prev_centers[1]
    /\ prev_speeds = <<>>
    /\ prev_center = NoPoint
    /\ frame_size = NoPoint
    /\ frame_shape = <<FrameHeight, FrameWidth>>
    /\ blob = NoPoint
    /\ speed_kmh = NoSpeed
    /\ display_speed = NoSpeed
    /\ last_match = [center |-> NoPoint, prev |-> NoPoint, sel |-> NoPoint, cands |-> {}]
    /\ frames_done = 0
    /\ last_call = [found |-> 0, average |-> NoSpeed, ncenters |-> 0, nspeeds |-> 0,
                    raised |-> FALSE]

\* the block under "if len(self.prev_centers) > 1" up to the weighted average:
\* speeds of the pairs, then np.average(speeds, weights=weights)
WeightedSpeed ==
    /\ EnoughCenters(prev_centers)
    /\ last_call.average = NoSpeed
    /\ last_call' = [last_call EXCEPT
                       !.average = WeightedAverage(PairSpeeds(prev_centers, frame_shape[1])),
                       !.ncenters = Len(prev_centers)]
    /\ UNCHANGED <<pipeVars, guiVars, trkVars, known_distance_m, scale_m_per_px, fps,
                   show_speed, object_selected, selected_box, prev_centers, prev_speeds,
                   prev_center, frame_size, frame_shape, blob, speed_kmh, display_speed,
                   last_match, frames_done>>

RowNext ==
    WeightedSpeed

SpecRow == RowInit /\ [][RowNext]_vars

(***************************************************************************)
(* The VideoProcessor of the GUI: open_video builds the detector, the loop  *)
(* of VideoThread.run calls process_next_frame, the window's controls      *)
(* start and stop the thread and call select_vehicle and update_distance   *)
(***************************************************************************)
\* the values the distance control is set to
Distances ==
    {known_distance_default, 2 * known_distance_default}

\* VideoProcessor.open_video on a file that opens: a fresh VehicleSpeedDetector(),
\* the first frame read for its width, set_video_info(width, self.fps)
OpenVideo ==
    /\ total_frames' = frame_count
    /\ current_frame_no' = 0
    /\ known_distance_m' = known_distance_default
    /\ show_speed' = TRUE
    /\ object_selected' = FALSE
    /\ selected_box' = NoPoint
    /\ prev_centers' = <<>>
    /\ prev_speeds' = <<>>
    /\ prev_center' = NoPoint
    /\ frame_size' = NoPoint
    /\ speed_kmh' = NoSpeed
    /\ display_speed' = NoSpeed
    /\ last_match' = [center |-> NoPoint, prev |-> NoPoint, sel |-> NoPoint, cands |-> {}]
    /\ frames_done' = 0
    /\ last_call' = [found |-> 0, average |-> NoSpeed, ncenters |-> 0, nspeeds |-> 0,
                     raised |-> FALSE]
    /\ IF src_len > 0
       THEN /\ scale_m_per_px' = Scale(known_distance_default, frame_shape[2])
            /\ fps' = cap_fps
            /\ cap_pos' = 0
            /\ cap_opened' = TRUE
       ELSE /\ scale_m_per_px' = None
            /\ fps' = None
            /\ cap_pos' = cap_pos
            /\ cap_opened' = FALSE
    /\ UNCHANGED <<chanVars, frame_skip, read_thread, process_thread, threadVars, src_len,
                   frame_count, obsVars, frame_shape, blob, config_known_distance_m,
                   cap_fps, current_speed, running, trkVars>>

\* VideoProcessor.process_next_frame: read a frame, count it, and on every
\* frame_skip-th frame run the detector; an exception of the detector is logged
\* and the call returns False.  What becomes of VideoThread.running is the
\* caller's business.
ProcessNextFrame(contours) ==
    /\ cap_opened
    /\ IF cap_pos < src_len
       THEN /\ cap_pos' = cap_pos + 1
            /\ current_frame_no' = current_frame_no + 1
            /\ IF (current_frame_no + 1) % frame_skip = 0
               THEN /\ process_frame(contours)
                    /\ blob' = blob
                    /\ current_speed' = IF last_call'.raised THEN current_speed
                                        ELSE speed_kmh'
               ELSE UNCHANGED <<detVars, current_speed>>
       ELSE UNCHANGED <<cap_pos, current_frame_no, detVars, current_speed>>
    /\ UNCHANGED <<chanVars, frame_skip, total_frames, read_thread, process_thread,
                   threadVars, src_len, frame_count, obsVars, config_known_distance_m,
                   cap_fps, cap_opened, trkVars>>

\* VideoProcessor.select_vehicle(x, y)
SelectVehicle(x, y) ==
    /\ cap_opened
    /\ select_object("LBUTTONDOWN", x, y)
    /\ UNCHANGED <<pipeVars, guiVars, trkVars>>

\* MainWindow.update_distance(value): the configuration is changed and saved
UpdateDistance(value) ==
    /\ config_known_distance_m' = value
    /\ UNCHANGED <<pipeVars, detVars, cap_fps, cap_opened, current_speed, running, trkVars>>

\* what process_next_frame returned, negated: False when cap.read() failed
\* (return False) and when the detector raised (except Exception: return False)
ReturnedFalse(exhausted, raised) ==
    exhausted \/ raised

\* MainWindow.start_video_processing on an opened video: video_thread.start(),
\* and run sets self.running = True
StartVideoProcessing ==
    /\ cap_opened
    /\ ~running
    /\ running' = TRUE
    /\ UNCHANGED <<pipeVars, detVars, config_known_distance_m, cap_fps, cap_opened,
                   current_speed, trkVars>>

\* one iteration of the loop of VideoThread.run: while self.running:
\* if not self.video_processor.process_next_frame(): break, and finally:
\* self.running = False
VideoThreadRun(contours) ==
    /\ running
    /\ ProcessNextFrame(contours)
    /\ running' = ~ReturnedFalse(cap_pos >= src_len,
                                  /\ cap_pos < src_len
                                  /\ (current_frame_no + 1) % frame_skip = 0
                                  /\ last_call'.raised)

\* VideoThread.stop: self.running = False; self.wait()
VideoThreadStop ==
    /\ running
    /\ running' = FALSE
    /\ UNCHANGED <<pipeVars, detVars, config_known_distance_m, cap_fps, cap_opened,
                   current_speed, trkVars>>

GuiStart ==
    /\ VideoInit(1..MaxFrameSkip, {SrcLen})
    /\ frame_count = src_len
    /\ GuiInit({0, Fps})
    /\ TrackerInit

GuiNext ==
    \/ OpenVideo
    \/ StartVideoProcessing
    \/ \E contours \in Frames : VideoThreadRun(contours)
    \/ VideoThreadStop
    \/ \E p \in Clicks : SelectVehicle(p[1], p[2])
    \/ \E value \in Distances : UpdateDistance(value)

SpecGui == GuiStart /\ [][GuiNext]_vars

(***************************************************************************)
(* MultiVehicleTracker.  Positions are in half pixels, so that the center  *)
(* (x + w/2, y + h/2) is exact; an update call reads the clock once.       *)
(***************************************************************************)
\* center = (x + w/2, y + h/2) of bbox = (x, y, w, h), in half pixels
TrackCenter(bbox) ==
    <<2 * bbox[1] + bbox[3], 2 * bbox[2] + bbox[4]>>

\* the square of np.linalg.norm(p - q), in squared half pixels
Dist2(p, q) ==
    (p[1] - q[1]) * (p[1] - q[1]) + (p[2] - q[2]) * (p[2] - q[2])

\* the square of the matching threshold, in squared half pixels
Threshold2 ==
    (2 * match_threshold) * (2 * match_threshold)

\* a track that never times out
is_active_always(track, t) ==
    TRUE

\* VehicleTrack.is_active at clock reading t
is_active(track, t) ==
    (t - track.last_update) < timeout

\* the keys of self.vehicles in iteration order: insertion order, which is id order
RECURSIVE Ids(_)
Ids(S) ==
    IF S = {} THEN <<>>
    ELSE LET least == CHOOSE a \in S : \A b \in S : a <= b
         IN <<least>> \o Ids(S \ {least})

\* a loop that also takes a track at exactly the threshold
RECURSIVE ClosestTrackInclusive(_, _, _, _, _, _)
ClosestTrackInclusive(ids, tracks, center, t, closest_id, min_dist2) ==
    IF ids = <<>> THEN closest_id
    ELSE LET track == tracks[Head(ids)]
             dist2 == Dist2(center, track.positions[Len(track.positions)])
         IN IF /\ is_active(track, t)
               /\ track.positions # <<>>
               /\ (closest_id = NoId \/ dist2 < min_dist2)
               /\ dist2 <= Threshold2
            THEN ClosestTrackInclusive(Tail(ids), tracks, center, t, Head(ids), dist2)
            ELSE ClosestTrackInclusive(Tail(ids), tracks, center, t, closest_id, min_dist2)

\* the loop "for vid, track in self.vehicles.items()": closest_id, with min_dist2
\* the square of min_dist (unused while closest_id is None and min_dist is inf)
RECURSIVE ClosestTrack(_, _, _, _, _, _)
ClosestTrack(ids, tracks, center, t, closest_id, min_dist2) ==
    IF ids = <<>> THEN closest_id
    ELSE LET track == tracks[Head(ids)]
             dist2 == Dist2(center, track.positions[Len(track.positions)])
         IN IF /\ is_active(track, t)
               /\ track.positions # <<>>
               /\ (closest_id = NoId \/ dist2 < min_dist2)
               /\ dist2 < Threshold2
            THEN ClosestTrack(Tail(ids), tracks, center, t, Head(ids), dist2)
            ELSE ClosestTrack(Tail(ids), tracks, center, t, closest_id, min_dist2)

\* speed = np.sqrt(dx*dx + dy*dy) / dt, in hundredths of a pixel per second
TrackSpeed(prev, curr, dt) ==
    (SqrtBetween(Dist2(curr, prev) * 2500, 0, 46340) * TicksPerSecond) \div dt

\* the branch "Update existing track"
Associate(track, center, t) ==
    LET positions == Append(track.positions, center)
        timestamps == Append(track.timestamps, t)
        n == Len(positions)
        dt == timestamps[n] - timestamps[n - 1]
    IN [track EXCEPT
          !.positions = positions,
          !.timestamps = timestamps,
          !.last_update = t,
          !.speeds = IF n >= 2 /\ dt > 0
                     THEN Append(track.speeds, TrackSpeed(positions[n - 1], positions[n], dt))
                     ELSE track.speeds]

\* the branch "Create new track"
NewTrack(vid, center, t) ==
    [id |-> vid, positions |-> <<center>>, timestamps |-> <<t>>, speeds |-> <<>>,
     last_update |-> t]

\* an id counter that does not move
NextVehicleIdStuck(vid) ==
    vid

\* self.next_vehicle_id += 1
NextVehicleId(vid) ==
    vid + 1

\* what a blob at center finds at clock reading t: the ids the tracker holds and
\* its active tracks, each with its latest position
Found(center, tracks, t) ==
    [center |-> center,
     known |-> DOMAIN tracks,
     active |-> {[id |-> vid, at |-> tracks[vid].positions[Len(tracks[vid].positions)]] :
                    vid \in {v \in DOMAIN tracks : (t - tracks[v].last_update) < timeout}}]

\* the outcome of one blob: the track it went to, whether that track is new, and
\* what the blob found
Outcome(vid, new, found) ==
    [id |-> vid, new |-> new, center |-> found.center, known |-> found.known,
     active |-> found.active]

\* the loop "for bbox in detections" at clock reading t; st holds vehicles,
\* next_vehicle_id, matched_tracks and, per blob, the track it went to
RECURSIVE UpdateLoop(_, _, _)
UpdateLoop(detections, st, t) ==
    IF detections = <<>> THEN st
    ELSE LET center == TrackCenter(Head(detections))
             closest_id == ClosestTrack(Ids(DOMAIN st.vehicles), st.vehicles, center, t,
                                        NoId, 0)
             vid == st.next_vehicle_id
             found == Found(center, st.vehicles, t)
         IN UpdateLoop(Tail(detections),
              IF closest_id # NoId
              THEN [st EXCEPT
                      !.vehicles[closest_id] = Associate(st.vehicles[closest_id], center, t),
                      !.matched_tracks = st.matched_tracks \cup {closest_id},
                      !.outcomes = Append(st.outcomes, Outcome(closest_id, FALSE, found))]
              ELSE [vehicles |-> [v \in DOMAIN st.vehicles \cup {vid} |->
                                    IF v = vid THEN NewTrack(vid, center, t)
                                    ELSE st.vehicles[v]],
                    next_vehicle_id |-> NextVehicleId(vid),
                    matched_tracks |-> st.matched_tracks \cup {vid},
                    outcomes |-> Append(st.outcomes, Outcome(vid, TRUE, found))],
              t)

\* a filter that keeps the tracks matched in this call only
KeptMatched(tracks, matched_tracks, t) ==
    {vid \in DOMAIN tracks : vid \in matched_tracks}

\* "Remove inactive tracks": the ids the dict comprehension keeps
Kept(tracks, matched_tracks, t) ==
    {vid \in DOMAIN tracks : is_active(tracks[vid], t) \/ vid \in matched_tracks}

\* the blob at center is farther than the threshold from the latest position of
\* every track of tracks
Far(center, tracks) ==
    \A vid \in DOMAIN tracks :
        Dist2(center, tracks[vid].positions[Len(tracks[vid].positions)]) > Threshold2

\* the tracks of tracks whose latest update is older than the timeout at t
Stale(tracks, t) ==
    {vid \in DOMAIN tracks : (t - tracks[vid].last_update) > timeout}

\* MultiVehicleTracker.update(detections, frame)
Update(detections) ==
    /\ last_pass.calls < MaxUpdates
    /\ \E st \in {UpdateLoop(detections,
                             [vehicles |-> vehicles, next_vehicle_id |-> next_vehicle_id,
                              matched_tracks |-> {}, outcomes |-> <<>>], now)} :
         /\ vehicles' = [vid \in Kept(st.vehicles, st.matched_tracks, now) |->
                           st.vehicles[vid]]
         /\ next_vehicle_id' = st.next_vehicle_id
         /\ created' = created \o
                         [k \in 1..Len(SelectSeq(st.outcomes, LAMBDA o : o.new)) |->
                            SelectSeq(st.outcomes, LAMBDA o : o.new)[k].id]
         /\ last_pass' = [calls |-> last_pass.calls + 1,
                          time |-> now,
                          outcomes |-> st.outcomes,
                          far |-> [k \in 1..Len(detections) |->
                                     Far(TrackCenter(detections[k]), vehicles)],
                          stale |-> Stale(vehicles, now),
                          near_stale |->
                              \E k \in 1..Len(detections), vid \in Stale(vehicles, now) :
                                  Dist2(TrackCenter(detections[k]),
                                        vehicles[vid].positions[Len(vehicles[vid].positions)])
                                    < Threshold2]
    /\ now' = now
    /\ UNCHANGED <<pipeVars, detVars, guiVars>>

\* time passes between two update calls
Tick ==
    /\ now < MaxTime
    /\ now' = now + 1
    /\ UNCHANGED <<pipeVars, detVars, guiVars, next_vehicle_id, vehicles, created, last_pass>>

\* the bounding boxes a frame can hold: centers (10, 10), (20.5, 10) and (60, 10)
Boxes ==
    {<<0, 0, 20, 20>>, <<10, 0, 21, 20>>, <<50, 0, 20, 20>>}

\* the detections of one frame: up to MaxBlobs different boxes, in any order
Detections ==
    {q \in UNION {[1..n -> Boxes] : n \in 0..MaxBlobs} :
        \A k, m \in 1..Len(q) : q[k] = q[m] => k = m}

TrkInit ==
    /\ VideoInit({1}, {SrcLen})
    /\ frame_count = src_len
    /\ GuiInit({Fps})
    /\ TrackerInit

TrkNext ==
    \/ \E detections \in Detections : Update(detections)
    \/ Tick

SpecTrk == TrkInit /\ [][TrkNext]_vars

(***************************************************************************)
(* Properties                                                              *)
(***************************************************************************)
ReaderAlive(i) == readers[i].pc # "done"
ProcAlive(j) == processors[j].pc \notin {"done", "dead"}
NoDuplicates(q) == \A k, m \in 1..Len(q) : q[k] = q[m] => k = m

\* C1: once stop_processing has set the stop flag it eventually returns: both
\* loops terminate and both joins complete, whatever the channel holds and
\* whether or not the source is exhausted.
C1_StopReturns ==
    (main_pc = "join_read") ~> (main_pc = "stopped")

\* C2: a FrameBuffer of capacity N >= 1 never holds more than N frames; a put on
\* a full channel returns False and leaves the contents unchanged, a put on a
\* channel holding fewer than N frames returns True.
C2_BoundedChannel ==
    /\ Len(buffer) <= BufferSize
    /\ last_put.size >= BufferSize => (~last_put.ok /\ last_put.same)
    /\ last_put.size < BufferSize => last_put.ok

C2_Witness ==
    /\ last_put.size = BufferSize
    /\ ~last_put.ok
    /\ Len(buffer) = BufferSize

\* C3: a consumer loop that has terminated did so with the stop flag set, the
\* producer-finished flag set and the channel empty.
C3_ConsumerExit ==
    \A j \in 1..Len(processors) :
        processors[j].pc = "done" =>
            (stop_event /\ processing_done /\ buffer = <<>>)

C3_Witness ==
    \E j \in 1..Len(processors) :
        processors[j].pc = "done" /\ enqueued # <<>>

\* C4: when the source was exhausted before the stop was requested, a consumer
\* loop that has terminated leaves no enqueued frame behind: the frames handed
\* to the callback are exactly the enqueued frames, each once, in order.
C4_NoFrameLost ==
    \A j \in 1..Len(processors) :
        (processors[j].pc = "done" /\ done_at_stop) => processed = enqueued

C4_Witness ==
    \E j \in 1..Len(processors) :
        /\ processors[j].pc = "done"
        /\ done_at_stop
        /\ stop_snapshot # {}
        /\ Len(enqueued) >= 2

\* C5: once the stop flag is set the callback is not invoked on a frame that was
\* in the channel when the flag was set.
C5_NoCallbackAfterStop ==
    after_stop \cap stop_snapshot = {}

\* C6: at most one producer thread and one consumer thread are alive at any
\* time, and when stop_processing has returned no thread that was ever started
\* is still running.
C6_NoOrphans ==
    /\ Cardinality({i \in 1..Len(readers) : ReaderAlive(i)}) <= 1
    /\ Cardinality({j \in 1..Len(processors) : ProcAlive(j)}) <= 1
    /\ main_pc = "stopped" =>
         /\ \A i \in 1..Len(readers) : ~ReaderAlive(i)
         /\ \A j \in 1..Len(processors) : ~ProcAlive(j)

\* C7: a callback that raises does not end the consumer loop; the failing frame
\* is handed to the callback once and never again, and a consumer loop that has
\* terminated has handed every enqueued frame to the callback, those enqueued
\* after the failing frame included.
C7_CallbackErrorSkipped ==
    /\ \A j \in 1..Len(processors) : processors[j].pc # "dead"
    /\ NoDuplicates(processed)
    /\ \A j \in 1..Len(processors) :
         processors[j].pc = "done" => Range(enqueued) \subseteq Range(processed)

C7_Witness ==
    \E j \in 1..Len(processors) :
        /\ processors[j].pc = "done"
        /\ \E k \in 1..(Len(processed) - 1) : processed[k] \in failed

\* the percentage the progress accessor is stated to return
ClampedProgress ==
    IF total_frames > 0
    THEN [num |-> Min(Max(current_frame_no * 100, 0), 100 * total_frames),
          den |-> total_frames]
    ELSE [num |-> 0, den |-> 1]

\* C8: progress is current_frame_no / total_frames * 100 clamped to [0, 100],
\* and 0 when total_frames is zero or unknown.
C8_ProgressClamped ==
    /\ progress = ClampedProgress
    /\ 0 <= progress.num
    /\ progress.num <= 100 * progress.den

\* C9: while tracking, the matched blob is the one whose center is nearest, in
\* Manhattan distance, to the previously matched center; the selected point is
\* the reference only while nothing has been matched yet.
C9_NearestToPrevious ==
    last_match.center # NoPoint =>
        LET ref == IF last_match.prev = NoPoint THEN last_match.sel ELSE last_match.prev
        IN \A c \in last_match.cands :
               Manhattan(last_match.center, ref) <= Manhattan(c, ref)

\* C10: the speed process_frame returns after a tracked frame is the median of
\* prev_speeds as it stands after the append.
C10_ReturnsMedian ==
    speed_kmh # NoSpeed => speed_kmh = Median(prev_speeds)

\* C11: any two consecutive entries of prev_speeds differ by at most
\* max_speed_change; when the weighted speed of a frame differs from the previous
\* entry by more than max_speed_change, the appended value is exactly the
\* previous entry plus or minus max_speed_change, in the direction of the
\* difference, and otherwise it is the weighted speed itself.
C11_RateLimited ==
    /\ \A k \in 1..(Len(prev_speeds) - 1) :
         Abs(prev_speeds[k + 1] - prev_speeds[k]) <= max_speed_change
    /\ (last_call.average # NoSpeed /\ last_call.nspeeds > 0) =>
         LET n == Len(prev_speeds)
             previous == prev_speeds[n - 1]
             appended == prev_speeds[n]
         IN IF last_call.average - previous > max_speed_change
            THEN appended = previous + max_speed_change
            ELSE IF previous - last_call.average > max_speed_change
                 THEN appended = previous - max_speed_change
                 ELSE appended = last_call.average

\* the clamp acted downwards on the latest frame
C11_Witness ==
    /\ last_call.average # NoSpeed
    /\ last_call.nspeeds > 0
    /\ prev_speeds[Len(prev_speeds) - 1] - last_call.average > max_speed_change
    /\ prev_speeds[Len(prev_speeds)] = prev_speeds[Len(prev_speeds) - 1] - max_speed_change

\* new is old with one value appended, the oldest entry evicted if old was full
Slid(old, new) ==
    new # old =>
        /\ new # <<>>
        /\ SubSeq(new, 1, Len(new) - 1)
             = (IF Len(old) >= speed_window THEN Tail(old) ELSE old)

\* C12: prev_centers and prev_speeds each hold at most speed_window entries, and
\* an append to a full history evicts exactly the oldest entry and keeps the
\* order of the rest.
C12_SlidingWindows ==
    /\ [](Len(prev_centers) <= speed_window /\ Len(prev_speeds) <= speed_window)
    /\ [][Slid(prev_centers, prev_centers') /\ Slid(prev_speeds, prev_speeds')]_vars

\* the latest frame appended to two full histories
C12_Witness ==
    /\ last_call.ncenters = speed_window
    /\ last_call.nspeeds = speed_window
    /\ last_call.average # NoSpeed
    /\ Len(prev_centers) = speed_window
    /\ Len(prev_speeds) = speed_window

\* C19: a selection sets selected_box and object_selected, whatever the frames
\* hold, and changes nothing else, the two histories included; once a target is
\* selected, no process_frame or select_object call makes it unselected.
C19_SelectionSticks ==
    [][ /\ object_selected => object_selected'
        /\ \A p \in Clicks :
             SelectObject("LBUTTONDOWN", p[1], p[2]) =>
                 /\ selected_box' = p
                 /\ object_selected'
                 /\ UNCHANGED <<prev_centers, prev_speeds, known_distance_m, scale_m_per_px,
                                fps, show_speed, frame_size>> ]_vars

\* a point was selected again, away from every contour of the latest frame, while
\* both histories hold entries
C19_Witness ==
    /\ object_selected
    /\ prev_speeds # <<>>
    /\ prev_centers # <<>>
    /\ last_match.sel # NoPoint
    /\ last_match.sel # selected_box
    /\ selected_box \notin last_match.cands

\* C20: a process_frame call on a frame without a qualifying contour, or made
\* while no target is selected, leaves prev_centers, prev_speeds, selected_box
\* and object_selected unchanged and returns no speed.
C20_EmptyFrameNoEffect ==
    [][ (frames_done' = frames_done + 1 /\ (~object_selected \/ last_call'.found = 0)) =>
            /\ UNCHANGED <<prev_centers, prev_speeds, selected_box, object_selected>>
            /\ speed_kmh' = NoSpeed ]_vars

\* while tracking with both histories filled, a frame held no qualifying contour
C20_Witness ==
    /\ object_selected
    /\ frames_done > 0
    /\ last_call.found = 0
    /\ prev_centers # <<>>
    /\ prev_speeds # <<>>
    /\ speed_kmh = NoSpeed

\* C13: once the video info is set, scale_m_per_px is strictly positive and is
\* the scale derived from the known distance of the configuration as it stands
\* and from the frame width.
C13_ScaleFollowsDistance ==
    (cap_opened /\ scale_m_per_px # None) =>
        /\ scale_m_per_px > 0
        /\ scale_m_per_px = Scale(config_known_distance_m, frame_shape[2])

\* C14: no frame is read or processed under an invalid calibration: a
\* non-positive known distance, frame rate or scale.
C14_InvalidCalibrationRejected ==
    (cap_opened /\ (cap_pos > 0 \/ frames_done > 0)) =>
        /\ known_distance_m > 0
        /\ fps > 0
        /\ scale_m_per_px > 0

\* C15: track ids are unique and assigned in strictly increasing order, and
\* next_vehicle_id is greater than the id of every track ever created, removed
\* tracks included.
C15_IdsNeverReused ==
    /\ \A k \in 1..Len(created) : created[k] < next_vehicle_id
    /\ \A k, m \in 1..Len(created) : k < m => created[k] < created[m]
    /\ \A vid \in DOMAIN vehicles : vehicles[vid].id = vid /\ vid \in Range(created)

\* a track was removed and a track created after it is held
C15_Witness ==
    \E vid \in Range(created) :
        /\ vid \notin DOMAIN vehicles
        /\ \E other \in DOMAIN vehicles : other > vid

\* C16: two blobs of one update call that are each farther than the threshold
\* from every track that existed before the call spawn two new tracks, with
\* increasing ids.
C16_FarBlobsSpawn ==
    \A k, m \in 1..Len(last_pass.outcomes) :
        (k < m /\ last_pass.far[k] /\ last_pass.far[m]) =>
            /\ last_pass.outcomes[k].new
            /\ last_pass.outcomes[m].new
            /\ last_pass.outcomes[k].id < last_pass.outcomes[m].id

\* C17: in one update call no track is associated with more than one blob.
C17_OneUpdatePerPass ==
    \A k, m \in 1..Len(last_pass.outcomes) :
        (k < m /\ ~last_pass.outcomes[m].new) =>
            (last_pass.outcomes[k].new \/ last_pass.outcomes[k].id # last_pass.outcomes[m].id)

\* C18: a track whose last update is older than the timeout when update is
\* called gets no blob in that call and is gone when the call returns; when the
\* call returns every track held was updated within the timeout.
C18_StaleTracksDropped ==
    /\ last_pass.stale \cap DOMAIN vehicles = {}
    /\ \A k \in 1..Len(last_pass.outcomes) : last_pass.outcomes[k].id \notin last_pass.stale
    /\ last_pass.time = now =>
         \A vid \in DOMAIN vehicles : (now - vehicles[vid].last_update) < timeout

\* a call found a timed-out track with a blob within the threshold of it, and
\* returned holding a track
C18_Witness ==
    /\ last_pass.stale # {}
    /\ last_pass.near_stale
    /\ last_pass.time = now
    /\ DOMAIN vehicles # {}

C22_FifoDelivery ==
    /\ [](/\ Len(processed) <= Len(enqueued)
          /\ \A k \in 1..Len(processed) : processed[k] = enqueued[k]
          /\ \A k, m \in 1..Len(processed) : k < m => processed[k] < processed[m]
          /\ \A j \in 1..Len(processors) :
                processors[j].pc = "call" =>
                    /\ Len(enqueued) > Len(processed)
                    /\ processors[j].frame = enqueued[Len(processed) + 1])
    /\ [][ \A j \in 1..Len(processors) :
              (processors[j].pc = "get" /\ processors'[j].pc # "get") =>
                  IF buffer = <<>>
                  THEN processors'[j].pc = "while" /\ buffer' = buffer
                  ELSE /\ processors'[j].pc = "call"
                       /\ processors'[j].frame = Head(buffer)
                       /\ buffer' = Tail(buffer) ]_vars

\* two frames went through the callback while a later one waits in the channel
C22_Witness ==
    /\ Len(processed) >= 2
    /\ buffer # <<>>
    /\ \A k \in 1..Len(buffer) : buffer[k] > processed[Len(processed)]

\* C24: with the frames numbered from 1 in read order, which is their position
\* in a source read from its start, the producer attempts a put only for a frame
\* whose number is a multiple of frame_skip; every other frame is never enqueued
\* and never reaches the callback.
C24_FrameSkipPolicy ==
    /\ \A i \in 1..Len(readers) :
         /\ readers[i].pc \in {"inc", "skip", "put"} => readers[i].frame = cap_pos
         /\ readers[i].pc \in {"skip", "put"} => readers[i].frame = current_frame_no
         /\ readers[i].pc = "put" => readers[i].frame % frame_skip = 0
    /\ \A k \in 1..Len(enqueued) : enqueued[k] % frame_skip = 0
    /\ \A k \in 1..Len(buffer) : buffer[k] % frame_skip = 0
    /\ \A k \in 1..Len(processed) : processed[k] % frame_skip = 0

\* with frame_skip = 2 the whole source was read: frame 2 alone was enqueued and
\* handed to the callback, frames 1 and 3 were passed over
C24_Witness ==
    /\ frame_skip = 2
    /\ cap_pos = 3
    /\ \E i \in 1..Len(readers) : readers[i].frame = 3 /\ readers[i].pc = "while"
    /\ enqueued = <<2>>
    /\ processed = <<2>>

\* C26: an iteration of the producer that finds the channel at or above 90% of
\* its capacity reads no frame: it sleeps and tests again; a frame is read only
\* while the channel is below that mark, so no frame is read and then dropped:
\* no put of the producer fails.
C26_WaitsWhenNearFull ==
    /\ [](/\ \A i \in 1..Len(readers) :
                /\ readers[i].pc = "read" => ~NearFull(buffer, BufferSize)
                /\ readers[i].put_failed = {}
                /\ ~readers[i].skipping
          /\ last_put.ok)
    /\ [][ \A i \in 1..Len(readers) :
              (readers[i].pc = "full" /\ NearFull(buffer, BufferSize)) =>
                  (readers'[i].pc \in {"full", "sleep"} /\ readers'[i].frame = readers[i].frame)
         ]_vars

\* the producer sleeps on a full channel while the source has a frame left
C26_Witness ==
    /\ \E i \in 1..Len(readers) : readers[i].pc = "sleep" /\ readers[i].put_failed = {}
    /\ Len(buffer) = BufferSize
    /\ cap_pos < src_len

\* C27: a failed read of the source makes the producer set processing_done and
\* leave its loop without counting the failed read in current_frame_no;
\* processing_done is set only after such a failed read.
C27_SourceExhausted ==
    /\ []((processing_done /\ ~stop_event) =>
            /\ current_frame_no = src_len
            /\ cap_pos = src_len
            /\ \E i \in 1..Len(readers) : readers[i].pc = "done")
    /\ [][ /\ \A i \in 1..Len(readers) :
                /\ (readers[i].pc = "read" /\ readers'[i].pc # "read" /\ cap_pos >= src_len) =>
                       (readers'[i].pc = "setdone" /\ current_frame_no' = current_frame_no)
                /\ (readers[i].pc = "setdone" /\ readers'[i].pc # "setdone") =>
                       /\ processing_done'
                       /\ readers'[i].pc = "done"
                       /\ current_frame_no' = current_frame_no
                /\ (readers'[i].pc = "setdone" /\ readers[i].pc # "setdone") =>
                       (readers[i].pc = "read" /\ cap_pos >= src_len)
           /\ (processing_done' /\ ~processing_done) =>
                  \E i \in 1..Len(readers) : readers[i].pc = "setdone" ]_vars

\* the source was read to its end: the producer has left its loop with
\* processing_done set and current_frame_no at the number of frames
C27_Witness ==
    /\ processing_done
    /\ ~stop_event
    /\ current_frame_no = src_len
    /\ enqueued # <<>>
    /\ \E i \in 1..Len(readers) : readers[i].pc = "done"

\* C23: with no producer calling put, clear terminates and leaves the channel
\* empty, also while a consumer calls get: clear never waits in buffer.get() on
\* an empty queue, which nobody would fill, and when it returns the channel is
\* empty.
C23_ClearTerminates ==
    /\ [](main_pc = "clear_get" => buffer # <<>>)
    /\ [][(main_pc = "clear" /\ main_pc' = "stopped") => buffer' = <<>>]_vars

\* C25: after a put of a producer has failed, that producer attempts no put for
\* the next frame_skip frames it reads: the frame it holds at its next attempt is
\* at least the (frame_skip + 1)-th it read since; the frame whose put failed is
\* never put again and never enqueued.
C25_DynamicSkip ==
    \A i \in 1..Len(readers) :
        /\ (readers[i].pc = "put" /\ readers[i].skipping) =>
               readers[i].read_since >= frame_skip + 1
        /\ readers[i].pc = "put" => readers[i].frame \notin readers[i].put_failed
        /\ readers[i].put_failed \cap Range(enqueued) = {}

\* a put failed, the producer read and discarded frame_skip frames, and now
\* attempts a put with the frame after them
C25_Witness ==
    \E i \in 1..Len(readers) :
        /\ readers[i].pc = "put"
        /\ readers[i].skipping
        /\ readers[i].read_since = frame_skip + 1
        /\ readers[i].put_failed # {}

\* C28: in the playback of VideoThread.run an exception raised while one frame
\* is processed does not end the playback: the loop goes on with the frames
\* that follow.
C28_ErrorDoesNotHaltPlayback ==
    [][ (/\ running
         /\ cap_pos' = cap_pos + 1
         /\ frames_done' = frames_done + 1
         /\ last_call'.raised) => running' ]_vars

\* the active tracks a blob found nearer than the threshold
Near(o) ==
    {a \in o.active : Dist2(o.center, a.at) < Threshold2}

\* C29: each blob of an update call goes to the active track whose latest center
\* is nearest to the blob's center, of those nearer than the threshold, as the
\* tracks stand when the blob is handled; when no active track is nearer than
\* the threshold, one at exactly the threshold included, the blob gets a new
\* track with an id no track had before.
C29_NearestWithinThreshold ==
    /\ NoDuplicates(created)
    /\ \A k \in 1..Len(last_pass.outcomes) :
         LET o == last_pass.outcomes[k] IN
           IF Near(o) = {}
           THEN /\ o.new
                /\ o.id \notin o.known
                /\ o.id \in Range(created)
                /\ \A vid \in o.known : vid < o.id
           ELSE /\ ~o.new
                /\ \E a \in Near(o) :
                      /\ a.id = o.id
                      /\ \A b \in Near(o) : Dist2(o.center, a.at) <= Dist2(o.center, b.at)

\* a blob found two active tracks nearer than the threshold, at different
\* distances, and another blob of the pass found a track at exactly the threshold
C29_Witness ==
    /\ \E k \in 1..Len(last_pass.outcomes) :
         \E a, b \in Near(last_pass.outcomes[k]) :
             Dist2(last_pass.outcomes[k].center, a.at)
               < Dist2(last_pass.outcomes[k].center, b.at)
    /\ \E k \in 1..Len(last_pass.outcomes) :
         /\ last_pass.outcomes[k].new
         /\ \E a \in last_pass.outcomes[k].active :
               Dist2(last_pass.outcomes[k].center, a.at) = Threshold2

\* C30: a track that no blob of an update call is matched to and that was last
\* updated less than the timeout ago stays in vehicles, with its id, positions,
\* timestamps, speeds and last_update as they were.
C30_UnmatchedActiveKept ==
    [][ last_pass'.calls = last_pass.calls + 1 =>
            \A vid \in DOMAIN vehicles :
                (/\ (now - vehicles[vid].last_update) < timeout
                 /\ \A k \in 1..Len(last_pass'.outcomes) : last_pass'.outcomes[k].id # vid) =>
                    /\ vid \in DOMAIN vehicles'
                    /\ vehicles'[vid] = vehicles[vid] ]_vars

\* the latest pass matched a blob to one track and left another, updated before
\* the pass, as it was
C30_Witness ==
    /\ last_pass.time = now
    /\ \E k \in 1..Len(last_pass.outcomes) : ~last_pass.outcomes[k].new
    /\ \E vid \in DOMAIN vehicles :
         /\ vehicles[vid].last_update < last_pass.time
         /\ \A k \in 1..Len(last_pass.outcomes) : last_pass.outcomes[k].id # vid

\* C31: for every track held, positions and timestamps have the same length and
\* every position after the first came with one speed:
\* len(speeds) = len(positions) - 1.
C31_OneSpeedPerAssociation ==
    \A vid \in DOMAIN vehicles :
        /\ Len(vehicles[vid].positions) = Len(vehicles[vid].timestamps)
        /\ Len(vehicles[vid].speeds) = Len(vehicles[vid].positions) - 1

\* C32 as stated: on a video of one object of constant displacement per frame,
\* the speed process_frame returns is the same from the frame that fills the
\* window of speed_window centers on, and two consecutive returned speeds never
\* differ by more than max_speed_change.
C32_StableWithinWindow ==
    [][(blob # NoPoint /\ frames_done' = frames_done + 1 /\ speed_kmh # NoSpeed)
          => /\ speed_kmh' # NoSpeed
             /\ Abs(speed_kmh' - speed_kmh) <= max_speed_change
             /\ Len(prev_centers) >= speed_window => speed_kmh' = speed_kmh]_vars

\* C32, amended: on such a video every frame from the second matched one on
\* returns a speed, two consecutive returned speeds never differ by more than
\* max_speed_change, and when the object moves along a row (its center_y does not
\* change) every returned speed is the first one.
C32_StableAlongARow ==
    /\ []((blob # NoPoint /\ Len(prev_centers) >= 2) => speed_kmh # NoSpeed)
    /\ [][(blob # NoPoint /\ frames_done' = frames_done + 1 /\ speed_kmh # NoSpeed)
             => /\ speed_kmh' # NoSpeed
                /\ Abs(speed_kmh' - speed_kmh) <= max_speed_change
                /\ blob[2][2] = 0 => speed_kmh' = speed_kmh]_vars

\* the object moved 40 px along a row in each of more than speed_window matched
\* frames, and the window of speeds holds one value, above max_speed_change
C32_Witness ==
    /\ blob # NoPoint
    /\ blob[2] = <<40, 0>>
    /\ frames_done > speed_window
    /\ Len(prev_centers) = speed_window
    /\ Len(prev_speeds) = speed_window
    /\ \A i \in 1..Len(prev_speeds) : prev_speeds[i] = speed_kmh
    /\ speed_kmh > max_speed_change

\* C33: for a fixed known_distance_m, a detector set up for a wider video has a
\* strictly smaller scale_m_per_px, and for a video of twice the width half the
\* scale (to the last digit of the scale, 1e-5 m per pixel).
C33_ScaleShrinksWithWidth ==
    [][(/\ scale_m_per_px # None
        /\ scale_m_per_px' # None
        /\ known_distance_m' = known_distance_m
        /\ frame_shape'[2] > frame_shape[2])
          => /\ scale_m_per_px' < scale_m_per_px
             /\ frame_shape'[2] = 2 * frame_shape[2]
                  => 2 * scale_m_per_px' \in {scale_m_per_px - 1, scale_m_per_px}]_vars

\* a detector set up for a video twice as wide as the reference one, with half
\* the scale of the reference width
C33_Witness ==
    /\ frame_shape[2] = 2 * FrameWidth
    /\ scale_m_per_px # None
    /\ scale_m_per_px > 0
    /\ 2 * scale_m_per_px \in {Scale(known_distance_m, FrameWidth) - 1,
                               Scale(known_distance_m, FrameWidth)}

\* C34: the perspective factor of every pair of prev_centers, taken at the
\* pair's later center, lies in [1.0, 1.5], does not decrease as center_y grows,
\* and is 1.0 on the same column at center_y = 0; also when the frames are
\* resized before the contours are extracted.
C34_PerspectiveFactorRange ==
    \A i \in 2..Len(prev_centers) :
        /\ PerspectiveFactor(prev_centers[i], frame_shape[1]) >= 1000
        /\ PerspectiveFactor(prev_centers[i], frame_shape[1]) <= 1500
        /\ PerspectiveFactor(<<prev_centers[i][1], 0>>, frame_shape[1]) = 1000
        /\ \A j \in 2..Len(prev_centers) :
               prev_centers[i][2] <= prev_centers[j][2]
                 => PerspectiveFactor(prev_centers[i], frame_shape[1])
                      <= PerspectiveFactor(prev_centers[j], frame_shape[1])

\* frames wider than 1280 px were resized, the target was matched along the
\* bottom edge of the resized image in two rows, and a speed was returned
C34_Witness ==
    /\ frame_size # NoPoint
    /\ frame_shape[2] > ResizeWidth
    /\ Len(prev_centers) >= 2
    /\ prev_centers[Len(prev_centers)][2] = frame_size[2] - 10
    /\ prev_centers[Len(prev_centers) - 1][2] = frame_size[2] - 20
    /\ PerspectiveFactor(prev_centers[Len(prev_centers)], frame_shape[1])
         > PerspectiveFactor(prev_centers[Len(prev_centers) - 1], frame_shape[1])
    /\ speed_kmh # NoSpeed

\* C35: with scale_m_per_px = 0.01 and centers 10 px apart on row 0, every
\* per-pair speed is 10 * 0.01 * fps * 3.6 km/h (10.8 km/h at 30 fps), and so is
\* the weighted speed, for every number of pairs in the window.
C35_TenPixelsPerFrame ==
    last_call.average # NoSpeed =>
        /\ \A i \in 1..(Len(prev_centers) - 1) :
               PairSpeeds(prev_centers, frame_shape[1])[i] = 360 * fps
        /\ last_call.average = 360 * fps

\* the weighted speed of a full window, four pairs, was computed
C35_Witness ==
    /\ Len(prev_centers) = speed_window
    /\ last_call.ncenters = speed_window
    /\ last_call.average = 360 * Fps

\* C36: once set the stop flag stays set, whatever is called afterwards (stop
\* again, clear, stop_processing, start_processing); so a producer loop started
\* by a start_processing that follows a stop_processing leaves its loop at the
\* first test: it reads no frame and does not set processing_done.
C36_StopFlagMonotone ==
    /\ [][stop_event => stop_event']_vars
    /\ [](\A i \in 2..Len(readers) :
              /\ readers[i].pc \in {"while", "done"}
              /\ readers[i].frame = None
              /\ readers[i].read_since = 0)

\* stop_processing returned, the source was wound back, start_processing was
\* called again and its producer loop has ended with frames left to read
C36_Witness ==
    /\ Len(readers) = 2
    /\ readers[2].pc = "done"
    /\ readers[2].read_since = 0
    /\ stop_event
    /\ main_pc = "idle"
    /\ cap_pos < src_len

\* C37: with one producer loop and one consumer loop on a channel of capacity
\* N >= 1 no put of the producer fails, the dynamic-skip branch is not taken,
\* and the channel never holds more than ceil(0.9 * N) frames.
C37_SingleProducerNeverFull ==
    /\ last_put.ok
    /\ \A i \in 1..Len(readers) :
           /\ readers[i].put_failed = {}
           /\ ~readers[i].skipping
           /\ readers[i].frames_to_skip = 0
    /\ Len(buffer) <= (9 * max_size + 9) \div 10

\* a channel of capacity LargeBuffer holds ceil(0.9 * LargeBuffer) frames, fewer
\* than its capacity, and the producer waits with frames left to read
C37_Witness ==
    /\ max_size = LargeBuffer
    /\ Len(buffer) = (9 * max_size + 9) \div 10
    /\ Len(buffer) < max_size
    /\ Len(readers) = 1
    /\ readers[1].pc = "sleep"
    /\ cap_pos < src_len
    /\ Len(enqueued) = Len(buffer)

\* C38: every entry of prev_speeds is non-negative, and the speed process_frame
\* returns is the entry it appended; also when the rate limit lowered it.
C38_SpeedsNonNegative ==
    /\ \A i \in 1..Len(prev_speeds) : prev_speeds[i] >= 0
    /\ speed_kmh # NoSpeed =>
         /\ prev_speeds # <<>>
         /\ speed_kmh = prev_speeds[Len(prev_speeds)]
         /\ speed_kmh >= 0

\* the weighted speed fell by more than max_speed_change and the entry appended
\* is the previous one less max_speed_change, below max_speed_change itself
C38_Witness ==
    /\ Len(prev_speeds) >= 2
    /\ speed_kmh = prev_speeds[Len(prev_speeds)]
    /\ speed_kmh = prev_speeds[Len(prev_speeds) - 1] - max_speed_change
    /\ last_call.average < speed_kmh
    /\ speed_kmh < max_speed_change

====
